---------------------------- MODULE Spec2Model ----------------------------
(***************************************************************************)
(* Sub-block assembly (bobtail/subblock_miner.cpp): SubBlockAssembler's    *)
(* CreateNewSubBlock with its priority, score and package selectors, the   *)
(* capacity check and the proof-base builder.                              *)
(*                                                                         *)
(* One assembly call is a run pc = "idle" -> "priority" -> "score" or      *)
(* "package" -> "assemble" -> "validate" -> "done" or "error".  Each       *)
(* iteration of a selector's loop is one action: the assembler is the only *)
(* writer of its state and holds the mempool read lock, so an iteration is *)
(* atomic.  The mempool snapshot, the configuration and the DAG tips are   *)
(* chosen by Init and stay fixed during the call.                          *)
(***************************************************************************)
EXTENDS Integers, Sequences, FiniteSets, TLC

(***************************************************************************)
(* Bounds of the model.                                                    *)
(***************************************************************************)
\* number of mempool entries of a snapshot
NumTx == 3
\* number of mempool entries of the long snapshots of SpecOverflow, which
\* hold enough candidates for MAX_PACKAGE_FAILURES over-size trials
NumTxLong == 7
\* how often the wall clock (GetTimeMicros) is seen to advance during a call
MaxTicks == 1
\* number of sub-block hashes the DAG tips are drawn from
MaxTips == 3
\* number of mempool entries of the snapshots of SpecFinish, which hold
\* enough candidates for more than 50 rejections near the end of the block
NumTxMany == 54
\* cachedTokensUsage up to which SpecUsage and SpecRace bring tokens into
\* the cache
MaxUsage == 4


VARIABLES
    mempool,          \* [Tx -> entry]: the mempool snapshot (CTxMemPoolEntry)
    parents,          \* [Tx -> SUBSET Tx]: GetMemPoolParents
    mapTx,            \* the mining_score and ancestor_score indices
    cfg,              \* configuration, chain tip and caller arguments
    tips,             \* bobtailDagSet.GetTips(): sequence of sub-block hashes
    now,              \* GetTimeMicros()
    ticks,            \* clock advances seen so far
    pc,               \* position of CreateNewSubBlock
    inBlock,          \* SubBlockAssembler::inBlock
    vtxe,             \* the selected entries, in commit order
    nBlockSize, nBlockTx, nBlockSigOps, nFees,
    lastFewTxs, blockFinished, maxSigOpsAllowed,
    vecPriority,      \* addPriorityTxs: heap of <<priority, tx>>
    waitPriMap,       \* addPriorityTxs: parked tx -> stored priority
    mi,               \* position in the index being iterated (1 .. MapTxSize + 1)
    clearedTxs,       \* addScoreTxs: heap of txs whose last blocker was placed
    waitSet,          \* addScoreTxs: parked txs
    nPackageFailures, \* addPackageTxs
    tmpl,             \* the CSubBlockTemplate being built
    last,             \* what the last step did (history, read by properties)
    scoreRejected,    \* entries addScoreTxs tested and turned down (history)
    consecutiveFailures, \* addPackageTxs: counted over-size trials since the
                      \* last admitted package (history)
    firstRun,         \* what an earlier call of CreateNewSubBlock on this
                      \* assembler returned and left behind (history)
    priorityPlaced,   \* entries committed by addPriorityTxs (history)
    held,             \* cs_main and mempool.cs_txmempool, as held by the call
    cacheTokens,      \* CSLPTokenCache::cacheTokens: outpoint -> entry
    dbTokens,         \* CSLPTokenDB: the 'T' records, outpoint -> token
    dbBestBlock,      \* CSLPTokenDB: the 'B' record (0: none)
    slpHung,          \* a token-cache call waits for cs_slp_utxo for ever
    slpLast,          \* what the last token-cache call did (history)
    slpAdded,         \* the tokens added and not spent since, the outpoints
                      \* spent and not added since, and whether a store
                      \* write has failed (history)
    cachedTokensUsage, \* CSLPTokenCache::cachedTokensUsage
    reader            \* a GetSLPToken that missed the cache: its position,
                      \* its outpoint and the token it read from the store

\* the handles of the mempool entries; the handle also orders the tx hashes
Tx == DOMAIN mempool
\* mapTx.size()
MapTxSize == Len(mempool)

\* the token cache and its store
slpVars == << cacheTokens, dbTokens, dbBestBlock, slpHung, slpLast, slpAdded,
             cachedTokensUsage, reader >>

vars == << mempool, parents, mapTx, cfg, tips, now, ticks, pc, inBlock, vtxe,
           nBlockSize, nBlockTx, nBlockSigOps, nFees, lastFewTxs,
           blockFinished, maxSigOpsAllowed, vecPriority, waitPriMap, mi,
           clearedTxs, waitSet, nPackageFailures, tmpl, last, scoreRejected,
           consecutiveFailures, firstRun,
                    priorityPlaced, held, slpVars >>

(***************************************************************************)
(* Helpers.                                                                *)
(***************************************************************************)
Max(a, b) == IF a >= b THEN a ELSE b
Min(a, b) == IF a <= b THEN a ELSE b

RECURSIVE SumOver(_, _)
SumOver(S, f) ==
    IF S = {} THEN 0
    ELSE LET x == CHOOSE y \in S : TRUE IN f[x] + SumOver(S \ {x}, f)

RECURSIVE SumSeq(_)
SumSeq(s) == IF s = << >> THEN 0 ELSE Head(s) + SumSeq(Tail(s))

Range(s) == { s[i] : i \in DOMAIN s }

(***************************************************************************)
(* Program constants.                                                      *)
(***************************************************************************)
MAX_PACKAGE_FAILURES == 5
MIN_TX_SIZE == 100
MAX_COINBASE_SCRIPTSIG_SIZE == 100
MAX_BLOCK_SIGOPS_PER_MB == 20000
BLOCKSTREAM_CORE_MAX_BLOCK_SIZE == 1000000
\* COutPoint::SetNull leaves n = (uint32_t) -1, written -1 here
NULL_N == -1
NullHash == 0

(***************************************************************************)
(* The mempool (external): entries, links, ancestor summaries, indices.    *)
(***************************************************************************)
GetTxSize(t) == mempool[t].size
GetSigOpCount(t) == mempool[t].sigops
GetFee(t) == mempool[t].fee
GetModifiedFee(t) == mempool[t].fee + mempool[t].feeDelta
GetTimeMicrosOf(t) == mempool[t].time

GetMemPoolParents(t) == parents[t]
GetMemPoolChildren(t) == { c \in Tx : t \in parents[c] }

\* all unconfirmed ancestors of t (transitive closure of the parent links)
RECURSIVE AncestorsWithin(_, _)
AncestorsWithin(S, n) ==
    LET next == S \cup UNION { parents[x] : x \in S }
    IN IF n = 0 \/ next = S THEN S ELSE AncestorsWithin(next, n - 1)
AllAncestors(t) == AncestorsWithin(parents[t], Len(parents))

\* ancestor summary the mempool keeps in each entry (self included)
GetCountWithAncestors(t) == mempool[t].nCountWithAncestors
GetSizeWithAncestors(t) == mempool[t].nSizeWithAncestors
GetSigOpCountWithAncestors(t) == mempool[t].nSigOpCountWithAncestors
GetModFeesWithAncestors(t) == mempool[t].nModFeesWithAncestors

\* the summary of a consistent mempool: sums over the entry and all of its
\* unconfirmed ancestors
WithAncestorState(m, t) ==
    LET pkg == AllAncestors(t) \cup {t}
    IN [size |-> m[t].size, sigops |-> m[t].sigops, fee |-> m[t].fee,
        feeDelta |-> m[t].feeDelta, priority |-> m[t].priority,
        time |-> m[t].time, lockTime |-> m[t].lockTime,
        respent |-> m[t].respent,
        nCountWithAncestors |-> Cardinality(pkg),
        nSizeWithAncestors |-> SumOver(pkg, [x \in DOMAIN m |-> m[x].size]),
        nSigOpCountWithAncestors |-> SumOver(pkg, [x \in DOMAIN m |-> m[x].sigops]),
        nModFeesWithAncestors |->
            SumOver(pkg, [x \in DOMAIN m |-> m[x].fee + m[x].feeDelta])]

\* CompareTxMemPoolEntryByScore(a, b): a sorts before b in the mining_score
\* index (modified fee per byte, descending; ties: higher hash first)
CompareTxMemPoolEntryByScore(a, b) ==
    LET f1 == GetModifiedFee(a) * GetTxSize(b)
        f2 == GetModifiedFee(b) * GetTxSize(a)
    IN IF f1 = f2 THEN b < a ELSE f1 > f2

\* CompareTxMemPoolEntryByAncestorFee(a, b): a sorts before b in the
\* ancestor_score index (package fee per byte, descending; ties: lower hash)
CompareTxMemPoolEntryByAncestorFee(a, b) ==
    LET f1 == GetModFeesWithAncestors(a) * GetSizeWithAncestors(b)
        f2 == GetModFeesWithAncestors(b) * GetSizeWithAncestors(a)
    IN IF f1 = f2 THEN a < b ELSE f1 > f2

\* the mining_score and ancestor_score indices of mapTx, as sequences
MiningScoreOrder ==
    [i \in 1 .. MapTxSize |->
        CHOOSE t \in Tx :
            Cardinality({ u \in Tx \ {t} : CompareTxMemPoolEntryByScore(u, t) })
                = i - 1]
AncestorScoreOrder ==
    [i \in 1 .. MapTxSize |->
        CHOOSE t \in Tx :
            Cardinality({ u \in Tx \ {t} :
                            CompareTxMemPoolEntryByAncestorFee(u, t) }) = i - 1]
MiningScoreIndex(i) == mapTx.mining_score[i]
AncestorScoreIndex(i) == mapTx.ancestor_score[i]

\* _CalculateMemPoolAncestors(entry, ..., &inBlock, false): the ancestors of t
\* that are not in the block; the walk does not go past an in-block entry
RECURSIVE WalkAncestors(_, _, _)
WalkAncestors(frontier, found, stop) ==
    LET fresh == (frontier \ stop) \ found
    IN IF fresh = {} THEN found
       ELSE WalkAncestors(UNION { parents[x] : x \in fresh },
                          found \cup fresh, stop)
CalculateMemPoolAncestors(t, stop) == WalkAncestors(parents[t], {}, stop)


(***************************************************************************)
(* External rules used by the assembler.                                   *)
(***************************************************************************)
\* a - b on uint64_t: a negative difference wraps to a value above every
\* size of the model (Huge stands for 2^64)
Huge == 1000000000
USub(a, b) == IF a >= b THEN a - b ELSE Huge - (b - a)

\* GetMaxBlockSigOpsCount: 20000 sig-ops per started megabyte
GetMaxBlockSigOpsCount(size) ==
    (1 + (USub(size, 1) \div BLOCKSTREAM_CORE_MAX_BLOCK_SIZE)) * MAX_BLOCK_SIGOPS_PER_MB

\* IsFinalTx(tx, nHeight, nLockTimeCutoff) for a tx whose inputs are not all
\* sequence-final: lock times below LOCKTIME_THRESHOLD are heights
LOCKTIME_THRESHOLD == 500000000
nHeight == cfg.tipHeight + 1
nLockTimeCutoff == cfg.medianTimePast
IsFinalTx(t) ==
    \/ mempool[t].lockTime = 0
    \/ mempool[t].lockTime <
         (IF mempool[t].lockTime < LOCKTIME_THRESHOLD THEN nHeight
          ELSE nLockTimeCutoff)

\* respend::RespendDetector::likelyKnownRespent on some input of t
HasKnownRespentInput(t) == mempool[t].respent

\* AllowFree(dPriority): dPriority > COIN * 144 / 250
AllowFreeThreshold == 57600000
AllowFree(p) == p > AllowFreeThreshold

\* minRelayTxFee.GetFee(size): satoshis per 1000 bytes, rounded down, but at
\* least the per-K fee itself when that would give 0 for a positive rate
MinRelayFee(size) ==
    LET f == (cfg.minRelayPerK * size) \div 1000
    IN IF f = 0 /\ cfg.minRelayPerK > 0 THEN cfg.minRelayPerK ELSE f

(***************************************************************************)
(* Capacity check and candidate filter.                                    *)
(***************************************************************************)
\* the size branch of IsIncrementallyGood: does the addition overflow the block
ExceedsBlockSize_IgnoresExtra(nExtraSize) == nBlockSize > cfg.nBlockMaxSize
ExceedsBlockSize(nExtraSize) == nBlockSize + nExtraSize > cfg.nBlockMaxSize

\* the sig-op branch of IsIncrementallyGood: the ceiling of either rule set
ExceedsSigOps_IgnoresBlock(nExtraSigOps) ==
    IF ~cfg.may2020Enabled
    THEN nExtraSigOps > GetMaxBlockSigOpsCount(nBlockSize)
    ELSE nExtraSigOps > maxSigOpsAllowed
ExceedsSigOps(nExtraSigOps) ==
    IF ~cfg.may2020Enabled
    THEN nBlockSigOps + nExtraSigOps > GetMaxBlockSigOpsCount(nBlockSize)
    ELSE nBlockSigOps + nExtraSigOps > maxSigOpsAllowed

\* IsIncrementallyGood: the verdict and the new blockFinished / lastFewTxs
IsIncrementallyGood_NeverCounts(nExtraSize, nExtraSigOps) ==
    IF ExceedsBlockSize(nExtraSize)
    THEN IF nBlockSize > USub(cfg.nBlockMaxSize, 100) \/ lastFewTxs > 50
         THEN [ok |-> FALSE, finished |-> TRUE, lastFew |-> lastFewTxs]
         ELSE IF nBlockSize > USub(cfg.nBlockMaxSize, 1000)
              THEN [ok |-> FALSE, finished |-> blockFinished,
                    lastFew |-> lastFewTxs]
              ELSE [ok |-> FALSE, finished |-> blockFinished,
                    lastFew |-> lastFewTxs]
    ELSE IF ExceedsSigOps(nExtraSigOps)
         THEN LET ceiling == IF ~cfg.may2020Enabled
                             THEN GetMaxBlockSigOpsCount(nBlockSize)
                             ELSE maxSigOpsAllowed
              IN [ok |-> FALSE,
                  finished |-> (blockFinished \/ nBlockSigOps > USub(ceiling, 2)),
                  lastFew |-> lastFewTxs]
         ELSE [ok |-> TRUE, finished |-> blockFinished, lastFew |-> lastFewTxs]
IsIncrementallyGood_NoFiftyLimit(nExtraSize, nExtraSigOps) ==
    IF ExceedsBlockSize(nExtraSize)
    THEN IF nBlockSize > USub(cfg.nBlockMaxSize, 100)
         THEN [ok |-> FALSE, finished |-> TRUE, lastFew |-> lastFewTxs]
         ELSE IF nBlockSize > USub(cfg.nBlockMaxSize, 1000)
              THEN [ok |-> FALSE, finished |-> blockFinished,
                    lastFew |-> lastFewTxs + 1]
              ELSE [ok |-> FALSE, finished |-> blockFinished,
                    lastFew |-> lastFewTxs]
    ELSE IF ExceedsSigOps(nExtraSigOps)
         THEN LET ceiling == IF ~cfg.may2020Enabled
                             THEN GetMaxBlockSigOpsCount(nBlockSize)
                             ELSE maxSigOpsAllowed
              IN [ok |-> FALSE,
                  finished |-> (blockFinished \/ nBlockSigOps > USub(ceiling, 2)),
                  lastFew |-> lastFewTxs]
         ELSE [ok |-> TRUE, finished |-> blockFinished, lastFew |-> lastFewTxs]
IsIncrementallyGood(nExtraSize, nExtraSigOps) ==
    IF ExceedsBlockSize(nExtraSize)
    THEN IF nBlockSize > USub(cfg.nBlockMaxSize, 100) \/ lastFewTxs > 50
         THEN [ok |-> FALSE, finished |-> TRUE, lastFew |-> lastFewTxs]
         ELSE IF nBlockSize > USub(cfg.nBlockMaxSize, 1000)
              THEN [ok |-> FALSE, finished |-> blockFinished,
                    lastFew |-> lastFewTxs + 1]
              ELSE [ok |-> FALSE, finished |-> blockFinished,
                    lastFew |-> lastFewTxs]
    ELSE IF ExceedsSigOps(nExtraSigOps)
         THEN LET ceiling == IF ~cfg.may2020Enabled
                             THEN GetMaxBlockSigOpsCount(nBlockSize)
                             ELSE maxSigOpsAllowed
              IN [ok |-> FALSE,
                  finished |-> (blockFinished \/ nBlockSigOps > USub(ceiling, 2)),
                  lastFew |-> lastFewTxs]
         ELSE [ok |-> TRUE, finished |-> blockFinished, lastFew |-> lastFewTxs]

\* TestForBlock after the capacity check: finality, minimum size, age, respend
\* micros_now is the value GetTimeMicros() returns inside TestForBlock
PassesFilters_FeeFloor(t, micros_now) ==
    /\ IsFinalTx(t)
    /\ (cfg.nov2018 => GetTxSize(t) >= MIN_TX_SIZE)
    /\ ~(GetTimeMicrosOf(t) + 1000000 > micros_now)
    /\ ~HasKnownRespentInput(t)
    /\ GetModifiedFee(t) >= MinRelayFee(GetTxSize(t))
PassesFilters(t, micros_now) ==
    /\ IsFinalTx(t)
    /\ (cfg.nov2018 => GetTxSize(t) >= MIN_TX_SIZE)
    /\ ~(GetTimeMicrosOf(t) + 1000000 > micros_now)
    /\ ~HasKnownRespentInput(t)

TestForBlock(t, micros_now) ==
    LET g == IsIncrementallyGood(GetTxSize(t), GetSigOpCount(t))
    IN IF ~g.ok THEN g ELSE [g EXCEPT !.ok = PassesFilters(t, micros_now)]

\* isStillDependent: some mempool parent is not in the block
isStillDependent_AllMissing(t) ==
    /\ GetMemPoolParents(t) # {}
    /\ \A p \in GetMemPoolParents(t) : p \notin inBlock
isStillDependent_Never(t) == FALSE
isStillDependent(t) == \E p \in GetMemPoolParents(t) : p \notin inBlock

\* TestPackageSigOps: the new maxSigOpsAllowed and the verdict
PackageSigOpsCeiling(packageSize) ==
    IF ~cfg.may2020Enabled THEN GetMaxBlockSigOpsCount(nBlockSize + packageSize)
    ELSE maxSigOpsAllowed
TestPackageSigOps(packageSize, packageSigOps) ==
    ~(nBlockSigOps + packageSigOps >= PackageSigOpsCeiling(packageSize))

\* TestPackageFinality
TestPackageFinality_FirstOnly(package) ==
    IsFinalTx(CHOOSE t \in package : \A u \in package : t <= u)
TestPackageFinality(package) == \A t \in package : IsFinalTx(t)


(***************************************************************************)
(* Proof-base builder and size reservation.                                *)
(***************************************************************************)
\* serialized length of a CompactSize count
CompactSize(n) == IF n < 253 THEN 1 ELSE IF n <= 65535 THEN 3 ELSE 5

\* bytes appended by CScript << std::vector of n bytes
PushSize(n) == IF n < 76 THEN 1 + n ELSE IF n <= 255 THEN 2 + n ELSE 3 + n

\* ::GetSerializeSize of a transaction: version, inputs (outpoint, script,
\* sequence), outputs (value, script), lock time
TxInSize(in) == 36 + CompactSize(in.scriptSig) + in.scriptSig + 4
TxOutSize(out) == 8 + CompactSize(out.script) + out.script
GetSerializeSize(tx) ==
    4 + CompactSize(Len(tx.vin))
      + SumSeq([i \in DOMAIN tx.vin |-> TxInSize(tx.vin[i])])
      + CompactSize(Len(tx.vout))
      + SumSeq([i \in DOMAIN tx.vout |-> TxOutSize(tx.vout[i])])
      + 4

\* the inputs after vin[0]: one per DAG tip, or one null input
AncestorInputs_NullIndex(ancestor_hashes) ==
    IF ancestor_hashes = << >>
    THEN << [hash |-> NullHash, n |-> NULL_N, scriptSig |-> 0] >>
    ELSE [i \in DOMAIN ancestor_hashes |->
            [hash |-> ancestor_hashes[i], n |-> NULL_N, scriptSig |-> 0]]
AncestorInputs_NoneWhenEmpty(ancestor_hashes) ==
    [i \in DOMAIN ancestor_hashes |->
        [hash |-> ancestor_hashes[i], n |-> NULL_N, scriptSig |-> 0]]
AncestorInputs(ancestor_hashes) ==
    IF ancestor_hashes = << >>
    THEN << [hash |-> NullHash, n |-> 0, scriptSig |-> 0] >>
    ELSE [i \in DOMAIN ancestor_hashes |->
            [hash |-> ancestor_hashes[i], n |-> NULL_N, scriptSig |-> 0]]

\* length of COINBASE_FLAGS after the chop
CoinbaseFlagsSize(scriptLen) ==
    LET flags == PushSize(cfg.cbmsgLen)
    IN IF scriptLen + flags > MAX_COINBASE_SCRIPTSIG_SIZE
       THEN USub(MAX_COINBASE_SCRIPTSIG_SIZE, scriptLen)
       ELSE flags

\* length of vin[0].scriptSig before any padding: the miner's script
\* followed by COINBASE_FLAGS
CoinbaseScriptSigSize(scriptLen) == scriptLen + CoinbaseFlagsSize(scriptLen)

\* proofbaseTx(scriptPubKeyIn, _nHeight, ancestor_hashes); scripts are
\* modelled by their lengths, _nHeight is not used by the code
proofbaseTx(scriptLen, ancestor_hashes) ==
    LET sig == CoinbaseScriptSigSize(scriptLen)
        tx == [vin |-> << [hash |-> NullHash, n |-> NULL_N, scriptSig |-> sig] >>
                          \o AncestorInputs(ancestor_hashes),
               vout |-> << >>]
        nCoinbaseSize == GetSerializeSize(tx)
    IN IF nCoinbaseSize < MIN_TX_SIZE /\ cfg.nov2018
       THEN [tx EXCEPT !.vin[1].scriptSig =
                          sig + PushSize(MIN_TX_SIZE - nCoinbaseSize - 1)]
       ELSE tx

\* reserveBlockSize
reserveBlockSize(scriptLen, coinbaseSize) ==
    LET nHeaderSize == 80 + 5
        nCoinbaseSize == GetSerializeSize(proofbaseTx(scriptLen, tips))
        nCoinbaseReserve == IF coinbaseSize >= 0 THEN coinbaseSize
                            ELSE cfg.coinbaseReserve
    IN nHeaderSize + Max(nCoinbaseSize, nCoinbaseReserve)

(***************************************************************************)
(* Initial states: a mempool snapshot, a configuration, the DAG tips.      *)
(***************************************************************************)
NoStep == [op |-> "none", cand |-> 0, verdict |-> "none", added |-> {}]
NoRun == [n |-> 0, tmpl |-> << >>, inBlock |-> {}, lastFewTxs |-> 0,
          blockFinished |-> FALSE]
EmptyTemplate == [vtx |-> << >>, vTxFees |-> << >>, vTxSigOps |-> << >>,
                  proofbase |-> [vin |-> << >>, vout |-> << >>]]

\* every dependency graph over n entries whose handles are numbered in a
\* topological order of the parent links
AnyLinks(n) ==
    { p \in [1 .. n -> SUBSET (1 .. n)] :
        \A t \in 1 .. n : p[t] \subseteq 1 .. (t - 1) }
\* n entries without dependencies
NoLinks(n) == { [t \in 1 .. n |-> {}] }

\* the assembler after construction, with a mempool snapshot of n entries
InitAssembler(n, Links, Entries, Configs, TipLists) ==
    /\ parents \in Links
    /\ \E m \in [1 .. n -> Entries] :
          mempool = [t \in 1 .. n |-> WithAncestorState(m, t)]
    /\ mapTx = [mining_score |-> MiningScoreOrder,
                ancestor_score |-> AncestorScoreOrder]
    /\ cfg \in Configs
    /\ tips \in TipLists
    /\ now = 2000000
    /\ ticks = 0
    /\ pc = "idle"
    /\ inBlock = {}
    /\ vtxe = << >>
    /\ nBlockSize = 0
    /\ nBlockTx = 0
    /\ nBlockSigOps = 0
    /\ nFees = 0
    /\ lastFewTxs = 0
    /\ blockFinished = FALSE
    /\ maxSigOpsAllowed = 0
    /\ vecPriority = {}
    /\ waitPriMap = [t \in {} |-> 0]
    /\ mi = 1
    /\ clearedTxs = {}
    /\ waitSet = {}
    /\ nPackageFailures = 0
    /\ tmpl = EmptyTemplate
    /\ last = NoStep
    /\ scoreRejected = {}
    /\ consecutiveFailures = 0
    /\ firstRun = NoRun
    /\ priorityPlaced = {}
    /\ held = {}

\* an empty token cache over an empty store, no call made
NoTokenCall == [op |-> "none", outpoint |-> 0, ret |-> FALSE, token |-> 0,
                spent |-> FALSE, block |-> 0, frags |-> << >>,
                relock |-> FALSE, synced |-> FALSE]
NoReader == [pc |-> "idle", outpoint |-> 0, tmp |-> 0]
TokenCacheIdle ==
    /\ cacheTokens = [o \in {} |-> 0]
    /\ dbTokens = [o \in {} |-> 0]
    /\ dbBestBlock = 0
    /\ slpHung = FALSE
    /\ slpLast = NoTokenCall
    /\ slpAdded = [added |-> [o \in {} |-> 0], spent |-> {},
                   writeFailed |-> FALSE]
    /\ cachedTokensUsage = 0
    /\ reader = NoReader

InitSized(n, Links, Entries, Configs, TipLists) ==
    /\ InitAssembler(n, Links, Entries, Configs, TipLists)
    /\ TokenCacheIdle

InitWith(Entries, Configs, TipLists) ==
    InitSized(NumTx, AnyLinks(NumTx), Entries, Configs, TipLists)


(***************************************************************************)
(* CreateNewSubBlock, step by step.                                        *)
(***************************************************************************)
\* the entries of S in ascending hash order (the iteration order of a
\* CTxMemPool::setEntries)
RECURSIVE InHashOrder(_)
InHashOrder(S) ==
    IF S = {} THEN << >>
    ELSE LET m == CHOOSE x \in S : \A y \in S : x <= y
         IN << m >> \o InHashOrder(S \ {m})

\* what AddToBlock adds to nFees for one entry
CommitFee_Modified(t) == GetModifiedFee(t)
CommitFee(t) == GetFee(t)

\* AddToBlock for every entry of S: the list, the counters, the in-block set
AddToBlock_Replaces(S) ==
    /\ vtxe' = InHashOrder(S)
    /\ nBlockSize' = nBlockSize + SumOver(S, [x \in Tx |-> GetTxSize(x)])
    /\ nBlockTx' = nBlockTx + Cardinality(S)
    /\ nBlockSigOps' = nBlockSigOps + SumOver(S, [x \in Tx |-> GetSigOpCount(x)])
    /\ nFees' = nFees + SumOver(S, [x \in Tx |-> CommitFee(x)])
    /\ inBlock' = S
AddToBlock_CountsCalls(S) ==
    /\ vtxe' = vtxe \o InHashOrder(S)
    /\ nBlockSize' = nBlockSize + SumOver(S, [x \in Tx |-> GetTxSize(x)])
    /\ nBlockTx' = nBlockTx + 1
    /\ nBlockSigOps' = nBlockSigOps + SumOver(S, [x \in Tx |-> GetSigOpCount(x)])
    /\ nFees' = nFees + SumOver(S, [x \in Tx |-> CommitFee(x)])
    /\ inBlock' = inBlock \cup S
AddToBlock(S) ==
    /\ vtxe' = vtxe \o InHashOrder(S)
    /\ nBlockSize' = nBlockSize + SumOver(S, [x \in Tx |-> GetTxSize(x)])
    /\ nBlockTx' = nBlockTx + Cardinality(S)
    /\ nBlockSigOps' = nBlockSigOps + SumOver(S, [x \in Tx |-> GetSigOpCount(x)])
    /\ nFees' = nFees + SumOver(S, [x \in Tx |-> CommitFee(x)])
    /\ inBlock' = inBlock \cup S

NoCommit_ClearsFees ==
    /\ nFees' = 0
    /\ UNCHANGED << vtxe, nBlockSize, nBlockTx, nBlockSigOps, inBlock >>
NoCommit == UNCHANGED << vtxe, nBlockSize, nBlockTx, nBlockSigOps, nFees, inBlock >>

Snapshot == << mempool, parents, mapTx, cfg, tips >>

FeePhase == IF cfg.miningCPFP THEN "package" ELSE "score"

nBlockPrioritySize == Min(cfg.nBlockMaxSize, cfg.blockprioritysize)

\* resetBlock: the fields of the assembler at the start of a run
resetBlock_KeepsInBlock ==
    [inBlock |-> inBlock,
     nBlockSize |-> reserveBlockSize(cfg.scriptLen, cfg.coinbaseSize),
     nBlockSigOps |-> 100, nBlockTx |-> 0, nFees |-> 0,
     lastFewTxs |-> 0, blockFinished |-> FALSE]
resetBlock ==
    [inBlock |-> {},
     nBlockSize |-> reserveBlockSize(cfg.scriptLen, cfg.coinbaseSize),
     nBlockSigOps |-> 100, nBlockTx |-> 0, nFees |-> 0,
     lastFewTxs |-> 0, blockFinished |-> FALSE]

\* LOCK(cs_main) and READLOCK(mempool.cs_txmempool): taken after resetBlock
\* and the dummy entry, before the rule set is read
LockForAssembly(h) == h \cup {"cs_main", "cs_txmempool"}
\* the READLOCK scope closes after the header is filled
CloseMempoolScope(h) == h \ {"cs_txmempool"}
\* return or throw: LOCK(cs_main) goes out of scope
ReleaseAtReturn(h) == h \ {"cs_main"}

\* resetBlock, the template's dummy entry, the locks, the rule set, and the
\* set-up of addPriorityTxs (which returns at once when no priority area is
\* configured).  resetBlock and the reservation run with the locks of the
\* state before the step, the rest with the locks of the state after it.
Begin ==
    /\ pc = "idle"
    /\ inBlock' = resetBlock.inBlock
    /\ vtxe' = << >>
    /\ nBlockSize' = resetBlock.nBlockSize
    /\ nBlockSigOps' = resetBlock.nBlockSigOps
    /\ nBlockTx' = resetBlock.nBlockTx
    /\ nFees' = resetBlock.nFees
    /\ lastFewTxs' = resetBlock.lastFewTxs
    /\ blockFinished' = resetBlock.blockFinished
    /\ maxSigOpsAllowed' = IF cfg.may2020Enabled THEN cfg.maxSigChecks
                           ELSE maxSigOpsAllowed
    /\ tmpl' = [EmptyTemplate EXCEPT !.vTxFees = << -1 >>, !.vTxSigOps = << -1 >>]
    /\ IF nBlockPrioritySize = 0
       THEN /\ pc' = FeePhase
            /\ vecPriority' = {}
       ELSE /\ pc' = "priority"
            /\ vecPriority' = { << mempool[t].priority, t >> : t \in Tx }
    /\ waitPriMap' = [t \in {} |-> 0]
    /\ mi' = 1
    /\ clearedTxs' = {}
    /\ waitSet' = {}
    /\ nPackageFailures' = 0
    /\ last' = [NoStep EXCEPT !.op = "reset"]
    /\ scoreRejected' = {}
    /\ consecutiveFailures' = 0
    /\ priorityPlaced' = {}
    /\ held' = LockForAssembly(held)
    /\ UNCHANGED << Snapshot, now, ticks, firstRun, slpVars >>

\* the values GetTimeMicros() can return at the next call of TestForBlock:
\* the clock may have advanced (by a second) since the last read.  An advance is modelled
\* only while some entry is still too young, because only the age test of
\* TestForBlock reads the clock.
ClockReads ==
    {now} \cup (IF ticks < MaxTicks
                    /\ \E t \in Tx : GetTimeMicrosOf(t) + 1000000 > now
                 THEN {now + 1000000} ELSE {})
ReadClock(micros_now) ==
    /\ now' = micros_now
    /\ ticks' = IF micros_now = now THEN ticks ELSE ticks + 1

\* TxCoinAgePriorityCompare(a, b): a is below b in the priority heap
TxCoinAgePriorityCompare(a, b) ==
    IF a[1] = b[1] THEN CompareTxMemPoolEntryByScore(b[2], a[2])
    ELSE a[1] < b[1]
PriorityTop ==
    CHOOSE e \in vecPriority :
        \A x \in vecPriority \ {e} : ~TxCoinAgePriorityCompare(e, x)

\* one iteration of the loop of addPriorityTxs
addPriorityTxs_Step ==
    /\ pc = "priority"
    /\ vecPriority # {} /\ ~blockFinished
    /\ \E micros_now \in ClockReads :
       LET iter == PriorityTop[2]
           actualPriority == PriorityTop[1]
           popped == vecPriority \ {PriorityTop}
           test == TestForBlock(iter, micros_now)
           tested == iter \notin inBlock /\ ~isStillDependent(iter)
       IN
       /\ IF tested THEN ReadClock(micros_now)
          ELSE micros_now = now /\ UNCHANGED << now, ticks >>
       /\ IF iter \in inBlock
          THEN /\ vecPriority' = popped
               /\ NoCommit
               /\ UNCHANGED << waitPriMap, lastFewTxs, blockFinished, pc >>
               /\ last' = [op |-> "priority", cand |-> iter,
                           verdict |-> "skip", added |-> {}]
          ELSE IF isStillDependent(iter)
          THEN /\ vecPriority' = popped
               /\ waitPriMap' =
                    [t \in DOMAIN waitPriMap \cup {iter} |->
                        IF t \in DOMAIN waitPriMap THEN waitPriMap[t]
                        ELSE actualPriority]
               /\ NoCommit
               /\ UNCHANGED << lastFewTxs, blockFinished, pc >>
               /\ last' = [op |-> "priority", cand |-> iter,
                           verdict |-> "park", added |-> {}]
          ELSE IF ~test.ok
          THEN /\ vecPriority' = popped
               /\ lastFewTxs' = test.lastFew
               /\ blockFinished' = test.finished
               /\ NoCommit
               /\ UNCHANGED << waitPriMap, pc >>
               /\ last' = [op |-> "priority", cand |-> iter,
                           verdict |-> "reject", added |-> {}]
          ELSE /\ AddToBlock({iter})
               /\ UNCHANGED << lastFewTxs, blockFinished >>
               /\ last' = [op |-> "priority", cand |-> iter,
                           verdict |-> "add", added |-> {iter}]
               /\ IF nBlockSize' >= nBlockPrioritySize \/ ~AllowFree(actualPriority)
                  THEN /\ pc' = FeePhase
                       /\ vecPriority' = popped
                       /\ UNCHANGED waitPriMap
                  ELSE LET cleared == GetMemPoolChildren(iter) \cap DOMAIN waitPriMap
                       IN /\ pc' = pc
                          /\ vecPriority' =
                               popped \cup { << waitPriMap[c], c >> : c \in cleared }
                          /\ waitPriMap' =
                               [t \in DOMAIN waitPriMap \ cleared |-> waitPriMap[t]]
    /\ UNCHANGED << Snapshot, maxSigOpsAllowed, mi, clearedTxs,
                    waitSet, nPackageFailures, tmpl,
                    scoreRejected,
                    consecutiveFailures, firstRun, held, slpVars >>
    /\ priorityPlaced' = priorityPlaced \cup last'.added

\* the loop of addPriorityTxs ends: heap empty or block finished
addPriorityTxs_Exit ==
    /\ pc = "priority"
    /\ ~(vecPriority # {} /\ ~blockFinished)
    /\ pc' = FeePhase
    /\ last' = [op |-> "priority", cand |-> 0, verdict |-> "return", added |-> {}]
    /\ NoCommit
    /\ UNCHANGED << Snapshot, now, ticks, lastFewTxs, blockFinished,
                    maxSigOpsAllowed, vecPriority, waitPriMap, mi, clearedTxs,
                    waitSet, nPackageFailures, tmpl, scoreRejected,
                    consecutiveFailures, firstRun,
                    priorityPlaced, held, slpVars >>


\* ScoreCompare heap: the top is the entry that sorts first by mining score
ClearedTop_LowestScore ==
    CHOOSE t \in clearedTxs :
        \A u \in clearedTxs \ {t} : CompareTxMemPoolEntryByScore(u, t)
ClearedTop ==
    CHOOSE t \in clearedTxs :
        \A u \in clearedTxs \ {t} : CompareTxMemPoolEntryByScore(t, u)

\* the children of a committed entry that leave the wait-set for the heap
ClearedChildren_None(iter) == {}
ClearedChildren(iter) == GetMemPoolChildren(iter) \cap waitSet

\* clearedTxs.empty(): the next candidate comes from the index only then
TakeFromIndex_WhileLeft == mi <= MapTxSize
TakeFromIndex == clearedTxs = {}

\* one iteration of the loop of addScoreTxs
addScoreTxs_Step ==
    /\ pc = "score"
    /\ ~blockFinished /\ (mi <= MapTxSize \/ clearedTxs # {})
    /\ \E micros_now \in ClockReads :
       LET fromIndex == TakeFromIndex
           iter == IF fromIndex THEN MiningScoreIndex(mi) ELSE ClearedTop
           rest == IF fromIndex THEN clearedTxs ELSE clearedTxs \ {iter}
           test == TestForBlock(iter, micros_now)
           tested == iter \notin inBlock /\ ~isStillDependent(iter)
       IN /\ IF tested THEN ReadClock(micros_now)
             ELSE micros_now = now /\ UNCHANGED << now, ticks >>
          /\ mi' = IF fromIndex THEN mi + 1 ELSE mi
          /\ scoreRejected' = IF tested /\ ~test.ok
                               THEN scoreRejected \cup {iter}
                               ELSE scoreRejected
          /\ IF iter \in inBlock
             THEN /\ clearedTxs' = rest
                  /\ NoCommit
                  /\ UNCHANGED << waitSet, lastFewTxs, blockFinished >>
                  /\ last' = [op |-> "score", cand |-> iter,
                              verdict |-> "skip", added |-> {}]
             ELSE IF isStillDependent(iter)
             THEN /\ clearedTxs' = rest
                  /\ waitSet' = waitSet \cup {iter}
                  /\ NoCommit
                  /\ UNCHANGED << lastFewTxs, blockFinished >>
                  /\ last' = [op |-> "score", cand |-> iter,
                              verdict |-> "park", added |-> {}]
             ELSE IF ~test.ok
             THEN /\ clearedTxs' = rest
                  /\ lastFewTxs' = test.lastFew
                  /\ blockFinished' = test.finished
                  /\ NoCommit
                  /\ UNCHANGED waitSet
                  /\ last' = [op |-> "score", cand |-> iter,
                              verdict |-> "reject", added |-> {}]
             ELSE LET cleared == ClearedChildren(iter)
                  IN /\ AddToBlock({iter})
                     /\ clearedTxs' = rest \cup cleared
                     /\ waitSet' = waitSet \ cleared
                     /\ UNCHANGED << lastFewTxs, blockFinished >>
                     /\ last' = [op |-> "score", cand |-> iter,
                                 verdict |-> "add", added |-> {iter}]
    /\ UNCHANGED << Snapshot, pc, maxSigOpsAllowed, vecPriority,
                    waitPriMap, nPackageFailures, tmpl, consecutiveFailures,
                    firstRun,
                    priorityPlaced, held, slpVars >>

\* the loop of addScoreTxs ends
addScoreTxs_Exit ==
    /\ pc = "score"
    /\ ~(~blockFinished /\ (mi <= MapTxSize \/ clearedTxs # {}))
    /\ pc' = "assemble"
    /\ last' = [op |-> "score", cand |-> 0, verdict |-> "return", added |-> {}]
    /\ NoCommit
    /\ UNCHANGED << Snapshot, now, ticks, lastFewTxs, blockFinished,
                    maxSigOpsAllowed, vecPriority, waitPriMap, mi, clearedTxs,
                    waitSet, nPackageFailures, tmpl, scoreRejected,
                    consecutiveFailures, firstRun,
                    priorityPlaced, held, slpVars >>

\* the package of a candidate: the entry and its ancestors outside the block
PackageOf_WithoutSelf(iter) == CalculateMemPoolAncestors(iter, inBlock)
PackageOf(iter) == CalculateMemPoolAncestors(iter, inBlock) \cup {iter}

\* size and sig-ops of the package: the precomputed summary, or the sums over
\* the trimmed set when some ancestor is already in the block
PackageSize(iter) ==
    IF GetCountWithAncestors(iter) > Cardinality(PackageOf(iter))
    THEN SumOver(PackageOf(iter), [x \in Tx |-> GetTxSize(x)])
    ELSE GetSizeWithAncestors(iter)
PackageSigOps(iter) ==
    IF GetCountWithAncestors(iter) > Cardinality(PackageOf(iter))
    THEN SumOver(PackageOf(iter), [x \in Tx |-> GetSigOpCount(x)])
    ELSE GetSigOpCountWithAncestors(iter)

\* nBlockSize > nBlockMaxSize * .50: only then an over-size trial is counted
MoreThanHalfFull_Always == TRUE
MoreThanHalfFull == 2 * nBlockSize > cfg.nBlockMaxSize

\* one iteration of the loop of addPackageTxs
addPackageTxs_Step ==
    /\ pc = "package"
    /\ mi <= MapTxSize
    /\ LET iter == AncestorScoreIndex(mi)
           packageSize == PackageSize(iter)
           packageFees == GetModFeesWithAncestors(iter)
           packageSigOps == PackageSigOps(iter)
           ancestors == PackageOf(iter)
           failures == IF MoreThanHalfFull
                       THEN nPackageFailures + 1 ELSE nPackageFailures
       IN /\ mi' = mi + 1
          /\ IF iter \in inBlock
             THEN /\ NoCommit
                  /\ UNCHANGED << pc, nPackageFailures, maxSigOpsAllowed >>
                  /\ last' = [op |-> "package", cand |-> iter,
                              verdict |-> "skip", added |-> {}]
             ELSE IF packageFees < MinRelayFee(packageSize)
                     /\ nBlockSize >= cfg.nBlockMinSize
             THEN /\ pc' = "assemble"
                  /\ NoCommit
                  /\ UNCHANGED << nPackageFailures, maxSigOpsAllowed >>
                  /\ last' = [op |-> "package", cand |-> iter,
                              verdict |-> "lowfee", added |-> {}]
             ELSE IF nBlockSize + packageSize > cfg.nBlockMaxSize
             THEN /\ nPackageFailures' = failures
                  /\ pc' = IF failures >= MAX_PACKAGE_FAILURES
                           THEN "assemble" ELSE pc
                  /\ NoCommit
                  /\ UNCHANGED maxSigOpsAllowed
                  /\ last' = [op |-> "package", cand |-> iter,
                              verdict |-> "oversize", added |-> {}]
             ELSE IF ~TestPackageSigOps(packageSize, packageSigOps)
             THEN /\ maxSigOpsAllowed' = PackageSigOpsCeiling(packageSize)
                  /\ NoCommit
                  /\ UNCHANGED << pc, nPackageFailures >>
                  /\ last' = [op |-> "package", cand |-> iter,
                              verdict |-> "sigops", added |-> {}]
             ELSE IF ~TestPackageFinality(ancestors)
             THEN /\ maxSigOpsAllowed' = PackageSigOpsCeiling(packageSize)
                  /\ NoCommit
                  /\ UNCHANGED << pc, nPackageFailures >>
                  /\ last' = [op |-> "package", cand |-> iter,
                              verdict |-> "nonfinal", added |-> {}]
             ELSE /\ maxSigOpsAllowed' = PackageSigOpsCeiling(packageSize)
                  /\ AddToBlock(ancestors)
                  /\ UNCHANGED << pc, nPackageFailures >>
                  /\ last' = [op |-> "package", cand |-> iter,
                              verdict |-> "add", added |-> ancestors]
          /\ consecutiveFailures' =
                IF last'.verdict = "add" THEN 0
                ELSE IF last'.verdict = "oversize"
                        /\ nPackageFailures' > nPackageFailures
                     THEN consecutiveFailures + 1
                     ELSE consecutiveFailures
    /\ UNCHANGED << Snapshot, now, ticks, lastFewTxs, blockFinished,
                    vecPriority, waitPriMap, clearedTxs, waitSet, tmpl,
                    scoreRejected, firstRun,
                    priorityPlaced, held, slpVars >>

\* the loop of addPackageTxs ends: the ancestor_score index is exhausted
addPackageTxs_Exit ==
    /\ pc = "package"
    /\ mi > MapTxSize
    /\ pc' = "assemble"
    /\ last' = [op |-> "package", cand |-> 0, verdict |-> "return", added |-> {}]
    /\ NoCommit
    /\ UNCHANGED << Snapshot, now, ticks, lastFewTxs, blockFinished,
                    maxSigOpsAllowed, vecPriority, waitPriMap, mi, clearedTxs,
                    waitSet, nPackageFailures, tmpl, scoreRejected,
                    consecutiveFailures, firstRun,
                    priorityPlaced, held, slpVars >>

\* std::sort(vtxe, NumericallyLessTxHashComparator): insertion sort by hash
RECURSIVE InsertByHash(_, _)
InsertByHash(s, x) ==
    IF s = << >> THEN << x >>
    ELSE IF x < Head(s) THEN << x >> \o s
         ELSE << Head(s) >> \o InsertByHash(Tail(s), x)
SortByHash_Unsorted(s) == s
RECURSIVE SortByHash(_)
SortByHash(s) ==
    IF s = << >> THEN << >>
    ELSE InsertByHash(SortByHash(Tail(s)), Head(s))

\* the template's fee entry of the proof-base
ProofbaseFee == -nFees

\* sort, fill vtx[1..] and the parallel arrays, build the final proof-base
AssembleTemplate ==
    /\ pc = "assemble"
    /\ LET sorted == SortByHash(vtxe)
           pb == proofbaseTx(cfg.scriptLen, tips)
       IN tmpl' = [vtx |-> << 0 >> \o sorted,
                   vTxFees |-> << ProofbaseFee >>
                               \o [i \in DOMAIN sorted |-> GetFee(sorted[i])],
                   vTxSigOps |-> << IF ~cfg.may2020Enabled
                                    THEN cfg.scriptSigOps ELSE 0 >>
                                 \o [i \in DOMAIN sorted |-> GetSigOpCount(sorted[i])],
                   proofbase |-> pb]
    /\ pc' = "validate"
    /\ last' = [NoStep EXCEPT !.op = "assemble"]
    /\ held' = CloseMempoolScope(held)
    /\ NoCommit
    /\ UNCHANGED << Snapshot, now, ticks, lastFewTxs, blockFinished,
                    maxSigOpsAllowed, vecPriority, waitPriMap, mi, clearedTxs,
                    waitSet, nPackageFailures, scoreRejected,
                    consecutiveFailures, firstRun,
                    priorityPlaced, slpVars >>

\* what CreateNewSubBlock does with the result of TestSubBlockValidity
ValidityOutcome_IgnoresResult(valid) == "done"
ValidityOutcome(valid) == IF ~valid THEN "error" ELSE "done"

\* TestSubBlockValidity (external): the template is returned, or a
\* runtime_error is thrown and the template is destroyed
TestValidity ==
    /\ pc = "validate"
    /\ \E valid \in BOOLEAN :
          /\ pc' = ValidityOutcome(valid)
          /\ tmpl' = IF pc' = "done" THEN tmpl ELSE EmptyTemplate
          /\ last' = [NoStep EXCEPT !.op = "validate",
                                    !.verdict = IF valid THEN "valid"
                                                ELSE "invalid"]
    /\ held' = ReleaseAtReturn(held)
    /\ NoCommit
    /\ UNCHANGED << Snapshot, now, ticks, lastFewTxs, blockFinished,
                    maxSigOpsAllowed, vecPriority, waitPriMap, mi, clearedTxs,
                    waitSet, nPackageFailures, scoreRejected,
                    consecutiveFailures, firstRun,
                    priorityPlaced, slpVars >>

\* every list of distinct sub-block hashes bobtailDagSet.GetTips() can return
TipLists ==
    UNION { { l \in [1 .. k -> 1 .. MaxTips] :
                \A i, j \in 1 .. k : i # j => l[i] # l[j] } :
            k \in 0 .. MaxTips }

\* another thread changes the DAG tips between the call of GetTips() in
\* reserveBlockSize and the one before the final proof-base.  Nothing in
\* between reads the tips, so the change is taken just before the second.
DagTipsChange ==
    /\ pc = "assemble"
    /\ last.op # "tips"
    /\ tips' \in TipLists \ {tips}
    /\ last' = [NoStep EXCEPT !.op = "tips"]
    /\ NoCommit
    /\ UNCHANGED << mempool, parents, mapTx, cfg, now, ticks, pc, lastFewTxs,
                    blockFinished, maxSigOpsAllowed, vecPriority, waitPriMap,
                    mi, clearedTxs, waitSet, nPackageFailures, tmpl,
                    scoreRejected, consecutiveFailures, firstRun,
                    priorityPlaced, held, slpVars >>

Next ==
    \/ Begin
    \/ addPriorityTxs_Step
    \/ addPriorityTxs_Exit
    \/ addScoreTxs_Step
    \/ addScoreTxs_Exit
    \/ addPackageTxs_Step
    \/ addPackageTxs_Exit
    \/ AssembleTemplate
    \/ TestValidity

\* CreateNewSubBlock has returned a template and is called again on the same
\* assembler: the fields keep what the first run left, the locals are gone
CreateNewSubBlock_Again ==
    /\ pc = "done"
    /\ firstRun.n = 0
    /\ firstRun' = [n |-> 1, tmpl |-> tmpl, inBlock |-> inBlock,
                    lastFewTxs |-> lastFewTxs, blockFinished |-> blockFinished]
    /\ pc' = "idle"
    /\ last' = [NoStep EXCEPT !.op = "again"]
    /\ NoCommit
    /\ UNCHANGED << Snapshot, now, ticks, lastFewTxs, blockFinished,
                    maxSigOpsAllowed, vecPriority, waitPriMap, mi, clearedTxs,
                    waitSet, nPackageFailures, tmpl, scoreRejected,
                    consecutiveFailures, priorityPlaced, held, slpVars >>

\* two calls of CreateNewSubBlock on one assembler
NextTwice ==
    \/ Next
    \/ CreateNewSubBlock_Again

\* the assembly with the DAG tips changing under it
NextDag ==
    \/ Next
    \/ DagTipsChange

(***************************************************************************)
(* The SLP token cache (slptokens/slpdb.cpp): CSLPTokenCache over          *)
(* CSLPTokenDB.  Every call runs under cs_slp_utxo and is one action.  A   *)
(* token is its content (a small number) and whether it is spent.          *)
(***************************************************************************)
\* the assembler's variables, which the token cache never touches
asmVars == << mempool, parents, mapTx, cfg, tips, now, ticks, pc, inBlock,
              vtxe, nBlockSize, nBlockTx, nBlockSigOps, nFees, lastFewTxs,
              blockFinished, maxSigOpsAllowed, vecPriority, waitPriMap, mi,
              clearedTxs, waitSet, nPackageFailures, tmpl, last,
              scoreRejected, consecutiveFailures, firstRun, priorityPlaced,
              held >>

\* the outpoints the token cache is exercised with
Outpoints == 1 .. 2
\* a token-cache call can start: no call holds cs_slp_utxo for ever, and no
\* store write has failed (after one, the state of the cache and of its
\* store is undefined and is not followed further)
CanCall == ~slpHung /\ ~slpAdded.writeFailed
DIRTY == "DIRTY"
FRESH == "FRESH"

Put(f, k, v) == [x \in DOMAIN f \cup {k} |-> IF x = k THEN v ELSE f[x]]
Drop(f, k) == [x \in DOMAIN f \ {k} |-> f[x]]

\* CSLPTokenCacheEntry() : flags(0), with a default token
DefaultCacheEntry == [token |-> 0, spent |-> FALSE, flags |-> {}]

\* CSLPTokenDB::GetToken / db.Read: is there a 'T' record for the outpoint
GetToken(outpoint) == outpoint \in DOMAIN dbTokens

\* the flags FetchSLPToken gives an entry it has read from the store
FetchedFlags_Clean == {}
FetchedFlags == {FRESH}

\* token.DynamicMemoryUsage(): the memory of the token's data, which grows
\* with its content; a default or a spent token holds none
DynamicMemoryUsage(e) == IF e.spent THEN 0 ELSE e.token
\* size_t addition
UAdd(a, b) == (a + b) % Huge

\* the end of FetchSLPToken: emplace keeps an entry that is in the map and
\* inserts the token read from the store otherwise; then the flags are
\* assigned and the usage of the entry is added to the counter
Populate(cache, usage, outpoint, tmp) ==
    LET it == IF outpoint \in DOMAIN cache THEN cache[outpoint]
              ELSE [token |-> tmp, spent |-> FALSE, flags |-> {}]
    IN [cache |-> Put(cache, outpoint, [it EXCEPT !.flags = FetchedFlags]),
        usage |-> UAdd(usage, DynamicMemoryUsage(it))]

\* FetchSLPToken without another thread in between: the entry of the cache,
\* or else the store's token put into the cache; found is FALSE when neither
\* has the outpoint
FetchSLPToken(outpoint) ==
    IF outpoint \in DOMAIN cacheTokens
    THEN [cache |-> cacheTokens, usage |-> cachedTokensUsage, found |-> TRUE]
    ELSE IF ~GetToken(outpoint)
    THEN [cache |-> cacheTokens, usage |-> cachedTokensUsage, found |-> FALSE]
    ELSE LET p == Populate(cacheTokens, cachedTokensUsage, outpoint,
                           dbTokens[outpoint])
         IN [cache |-> p.cache, usage |-> p.usage, found |-> TRUE]

\* GetSLPToken: true whenever FetchSLPToken returns an entry
GetSLPToken(outpoint) ==
    /\ CanCall
    /\ LET f == FetchSLPToken(outpoint)
       IN /\ cacheTokens' = f.cache
          /\ cachedTokensUsage' = f.usage
          /\ slpLast' = [NoTokenCall EXCEPT
                           !.op = "GetSLPToken", !.outpoint = outpoint,
                           !.ret = f.found,
                           !.token = IF f.found THEN f.cache[outpoint].token
                                     ELSE 0,
                           !.spent = f.found /\ f.cache[outpoint].spent]
    /\ UNCHANGED << dbTokens, dbBestBlock, slpHung, slpAdded, reader,
                    asmVars >>

\* the flags AddSLPToken leaves on an entry that had the given flags
AddedFlags_NotDirty(flags) == flags \cup {FRESH}
AddedFlags(flags) ==
    flags \cup {DIRTY} \cup (IF DIRTY \notin flags THEN {FRESH} ELSE {})

\* AddSLPToken: emplace, then overwrite the token and set the flags
AddSLPToken(outpoint, token) ==
    /\ CanCall
    /\ LET it == IF outpoint \in DOMAIN cacheTokens THEN cacheTokens[outpoint]
                 ELSE DefaultCacheEntry
           added == [token |-> token, spent |-> FALSE,
                     flags |-> AddedFlags(it.flags)]
       IN /\ cacheTokens' = Put(cacheTokens, outpoint, added)
          /\ cachedTokensUsage' =
                UAdd(IF outpoint \in DOMAIN cacheTokens
                     THEN USub(cachedTokensUsage, DynamicMemoryUsage(it))
                     ELSE cachedTokensUsage,
                     DynamicMemoryUsage(added))
    /\ slpLast' = [NoTokenCall EXCEPT !.op = "AddSLPToken",
                                      !.outpoint = outpoint, !.token = token]
    /\ slpAdded' = [slpAdded EXCEPT !.added = Put(@, outpoint, token),
                                    !.spent = @ \ {outpoint}]
    /\ UNCHANGED << dbTokens, dbBestBlock, slpHung, reader, asmVars >>

\* what SpendSLPToken does with the entry FetchSLPToken returned
SpendEntry(cache, outpoint) ==
    IF FRESH \in cache[outpoint].flags
    THEN Drop(cache, outpoint)
    ELSE Put(cache, outpoint,
             [cache[outpoint] EXCEPT !.flags = @ \cup {DIRTY}, !.spent = TRUE])

\* FetchSLPToken(outpoint, nullptr) goes on to base->GetToken, which takes
\* READLOCK(cs_slp_utxo), when the cache does not hold the outpoint
StoreReadUnderLock(outpoint) == outpoint \notin DOMAIN cacheTokens

\* SpendSLPToken.  It holds the exclusive lock when it calls FetchSLPToken;
\* on a cache miss FetchSLPToken calls CSLPTokenDB::GetToken, which takes the
\* shared lock of the same cs_slp_utxo: the call waits for ever, or, where
\* the lock lets its owner in again, goes on.
SpendSLPToken(outpoint) ==
    /\ CanCall
    /\ \/ /\ outpoint \notin DOMAIN cacheTokens
          /\ slpHung' = TRUE
          /\ slpLast' = [NoTokenCall EXCEPT !.op = "SpendSLPToken",
                                            !.outpoint = outpoint,
                                            !.relock = StoreReadUnderLock(outpoint)]
          /\ UNCHANGED << cacheTokens, slpAdded, cachedTokensUsage >>
       \/ /\ LET f == FetchSLPToken(outpoint)
             IN /\ cacheTokens' = IF f.found THEN SpendEntry(f.cache, outpoint)
                                  ELSE cacheTokens
                /\ cachedTokensUsage' =
                      IF f.found
                      THEN USub(f.usage, DynamicMemoryUsage(f.cache[outpoint]))
                      ELSE cachedTokensUsage
          /\ slpLast' = [NoTokenCall EXCEPT !.op = "SpendSLPToken",
                                            !.outpoint = outpoint,
                                            !.ret = TRUE,
                                            !.relock = StoreReadUnderLock(outpoint)]
          /\ slpAdded' = [slpAdded EXCEPT
                            !.added = Drop(@, outpoint),
                            !.spent = IF \/ outpoint \in DOMAIN cacheTokens
                                         \/ GetToken(outpoint)
                                      THEN @ \cup {outpoint} ELSE @]
          /\ UNCHANGED slpHung
    /\ UNCHANGED << dbTokens, dbBestBlock, reader, asmVars >>

\* db.WriteBatch: the operations of the batch applied in order
RECURSIVE ApplyBatch(_, _)
ApplyBatch(batch, db) ==
    IF batch = << >> THEN db
    ELSE LET b == Head(batch)
         IN ApplyBatch(Tail(batch),
                       IF b.erase THEN Drop(db, b.outpoint)
                       ELSE Put(db, b.outpoint, b.token))

\* db.WriteBatch(batch) as the next write of the call: it succeeds or fails
\* as oks says, and a failed write leaves the store as it was
WriteBatch(st, oks) ==
    LET ok == oks[Len(st.frags) + 1]
    IN [st EXCEPT !.db = IF ok THEN ApplyBatch(st.batch, st.db) ELSE st.db,
                  !.frags = Append(st.frags, ok)]

\* one round of the loop of CSLPTokenDB::BatchWrite over mapTokens
BatchEntry(st, outpoint, synced, batch_size, oks) ==
    LET it == st.map[outpoint]
    IN IF DIRTY \notin it.flags THEN st
       ELSE LET queued ==
                  IF it.spent
                  THEN [st EXCEPT
                          !.batch = Append(@, [erase |-> TRUE,
                                               outpoint |-> outpoint,
                                               token |-> 0]),
                          !.usage = USub(@, DynamicMemoryUsage(it)),
                          !.map = Drop(@, outpoint)]
                  ELSE [st EXCEPT
                          !.batch = Append(@, [erase |-> FALSE,
                                               outpoint |-> outpoint,
                                               token |-> it.token]),
                          !.usage = IF synced
                                    THEN USub(@, DynamicMemoryUsage(it))
                                    ELSE @,
                          !.map = IF synced THEN Drop(@, outpoint)
                                  ELSE Put(@, outpoint,
                                           [it EXCEPT !.flags = {}])]
            IN IF Len(queued.batch) > batch_size
               THEN [WriteBatch(queued, oks) EXCEPT !.batch = << >>]
               ELSE queued

RECURSIVE BatchLoop(_, _, _, _, _)
BatchLoop(order, st, synced, batch_size, oks) ==
    IF order = << >> THEN st
    ELSE BatchLoop(Tail(order),
                   BatchEntry(st, Head(order), synced, batch_size, oks),
                   synced, batch_size, oks)

\* the orders in which the loop can meet the entries of the unordered map
MapOrders(map) ==
    { order \in [1 .. Cardinality(DOMAIN map) -> DOMAIN map] :
        \A i, j \in DOMAIN order : i # j => order[i] # order[j] }

\* the best block after the loop: written at once, before the last batch
BestBlockWritten_InLastBatch(st, hashBlock, oks) ==
    IF hashBlock # 0 /\ oks[Len(st.frags) + 1] THEN hashBlock ELSE dbBestBlock
BestBlockWritten(st, hashBlock, oks) ==
    IF hashBlock # 0 THEN hashBlock ELSE dbBestBlock

\* CSLPTokenDB::BatchWrite(cacheTokens, hashBlock, ..., cachedTokensUsage),
\* as the cache's flush calls it.  synced stands for
\* IsChainNearlySyncd() && !fImporting && !fReindex, batch_size for
\* nMaxDBBatchSize counted in batch entries, oks for the outcome of each
\* db.WriteBatch in turn.
BatchWrite(hashBlock, synced, batch_size, oks) ==
    /\ CanCall
    /\ \E order \in MapOrders(cacheTokens) :
         LET looped == BatchLoop(order,
                                 [map |-> cacheTokens, db |-> dbTokens,
                                  usage |-> cachedTokensUsage,
                                  batch |-> << >>, frags |-> << >>],
                                 synced, batch_size, oks)
             final == WriteBatch(looped, oks)
             ret == final.frags[Len(final.frags)]
         IN /\ cacheTokens' = final.map
            /\ cachedTokensUsage' = final.usage
            /\ dbTokens' = final.db
            /\ dbBestBlock' = BestBlockWritten(looped, hashBlock, oks)
            /\ slpLast' = [NoTokenCall EXCEPT !.op = "BatchWrite",
                                              !.ret = ret,
                                              !.block = hashBlock,
                                              !.synced = synced,
                                              !.frags = final.frags]
            /\ slpAdded' = [slpAdded EXCEPT
                              !.writeFailed = @ \/ FALSE \in Range(final.frags)]
    /\ UNCHANGED << slpHung, reader, asmVars >>

\* GetSLPToken step by step, other threads running in between.  First the
\* probe of FetchSLPToken under the shared lock: a hit returns the entry, a
\* miss releases the lock
GetProbe(outpoint) ==
    /\ CanCall
    /\ reader.pc = "idle"
    /\ IF outpoint \in DOMAIN cacheTokens
       THEN /\ slpLast' = [NoTokenCall EXCEPT
                             !.op = "GetSLPToken", !.outpoint = outpoint,
                             !.ret = TRUE,
                             !.token = cacheTokens[outpoint].token,
                             !.spent = cacheTokens[outpoint].spent]
            /\ UNCHANGED reader
       ELSE /\ reader' = [pc |-> "read", outpoint |-> outpoint, tmp |-> 0]
            /\ UNCHANGED slpLast
    /\ UNCHANGED << cacheTokens, cachedTokensUsage, dbTokens, dbBestBlock,
                    slpHung, slpAdded, asmVars >>

\* then base->GetToken(outpoint, tmp), holding no lock of the cache's own
GetRead ==
    /\ CanCall
    /\ reader.pc = "read"
    /\ IF GetToken(reader.outpoint)
       THEN /\ reader' = [reader EXCEPT !.pc = "populate",
                                        !.tmp = dbTokens[reader.outpoint]]
            /\ UNCHANGED slpLast
       ELSE /\ reader' = NoReader
            /\ slpLast' = [NoTokenCall EXCEPT !.op = "GetSLPToken",
                                              !.outpoint = reader.outpoint]
    /\ UNCHANGED << cacheTokens, cachedTokensUsage, dbTokens, dbBestBlock,
                    slpHung, slpAdded, asmVars >>

\* then the exclusive lock, the emplace and the return of the entry
GetPopulate ==
    /\ CanCall
    /\ reader.pc = "populate"
    /\ LET p == Populate(cacheTokens, cachedTokensUsage, reader.outpoint,
                         reader.tmp)
       IN /\ cacheTokens' = p.cache
          /\ cachedTokensUsage' = p.usage
          /\ slpLast' = [NoTokenCall EXCEPT
                           !.op = "GetSLPToken",
                           !.outpoint = reader.outpoint, !.ret = TRUE,
                           !.token = p.cache[reader.outpoint].token,
                           !.spent = p.cache[reader.outpoint].spent]
    /\ reader' = NoReader
    /\ UNCHANGED << dbTokens, dbBestBlock, slpHung, slpAdded, asmVars >>

\* CSLPTokenCache::Clear(): the map is emptied under the exclusive lock
Clear ==
    /\ CanCall
    /\ cacheTokens' = [o \in {} |-> DefaultCacheEntry]
    /\ slpLast' = [NoTokenCall EXCEPT !.op = "Clear"]
    /\ UNCHANGED << cachedTokensUsage, dbTokens, dbBestBlock, slpHung,
                    slpAdded, reader, asmVars >>

\* the outcomes of the db.WriteBatch calls of one BatchWrite, in turn: all
\* succeed, or one of them fails
WriteOutcomes ==
    { oks \in [1 .. Cardinality(Outpoints) + 1 -> BOOLEAN] :
        Cardinality({ i \in DOMAIN oks : ~oks[i] }) <= 1 }

NextTokens ==
    \/ \E outpoint \in Outpoints : GetSLPToken(outpoint)
    \/ \E outpoint \in Outpoints, token \in {1, 2} :
          AddSLPToken(outpoint, token)
    \/ \E outpoint \in Outpoints : SpendSLPToken(outpoint)
    \/ \E hashBlock \in {0, 1, 2}, synced \in BOOLEAN,
          batch_size \in {0, Cardinality(Outpoints)},
          oks \in WriteOutcomes :
          BatchWrite(hashBlock, synced, batch_size, oks)

(***************************************************************************)
(* Specifications.  Each draws the mempool snapshot and the configuration  *)
(* from the sets that make the cases of its claims happen.                 *)
(***************************************************************************)
\* an entry that passes every test: 300 bytes, 1 sig-op, a priority above
\* the free threshold, arrived long ago, no lock time
BaseEntry == [size |-> 300, sigops |-> 1, fee |-> 1000, feeDelta |-> 0,
              priority |-> 60000000, time |-> 0, lockTime |-> 0,
              respent |-> FALSE]

BaseConfig == [nBlockMaxSize |-> 2000, nBlockMinSize |-> 0,
               blockprioritysize |-> 0, miningCPFP |-> FALSE,
               may2020Enabled |-> FALSE, nov2018 |-> TRUE,
               maxSigChecks |-> 10051, coinbaseSize |-> 0,
               coinbaseReserve |-> 1000, scriptLen |-> 25, cbmsgLen |-> 12,
               scriptSigOps |-> 1, tipHeight |-> 100,
               medianTimePast |-> 1500000000, minRelayPerK |-> 1000]

\* the selector and the priority area vary in every specification, so that
\* each phase runs
SelectorConfigs(base) ==
    { [base EXCEPT !.miningCPFP = cp, !.blockprioritysize = pr] :
        cp \in BOOLEAN, pr \in {0, 1200} }

\* Spec: capacity.  Sizes and sig-op counts vary, under both sig-op rules, in
\* a block of about two entries and in one of more than a megabyte (where
\* the pre-May2020 ceiling grows); every entry passes the filters.
CapacityEntries ==
    { [BaseEntry EXCEPT !.size = sz, !.sigops = so, !.fee = 100] :
        sz \in {900, 1000000}, so \in {1, 9950} }
CapacityConfigs ==
    UNION { SelectorConfigs([BaseConfig EXCEPT !.may2020Enabled = m,
                                               !.nBlockMaxSize = mx,
                                               !.minRelayPerK = 0]) :
              m \in BOOLEAN, mx \in {2100, 2500000} }

Init == InitWith(CapacityEntries, CapacityConfigs, { << >> })
Spec == Init /\ [][Next]_vars

\* SpecFees: sizes, fees and fee deltas vary, so the two score indices order
\* the entries in many ways and free entries meet the minimum relay fee.
FeeEntries ==
    { [BaseEntry EXCEPT !.size = sz, !.fee = f] :
        sz \in {300, 900}, f \in {0, 3000} }
    \cup { [BaseEntry EXCEPT !.fee = 500, !.feeDelta = 1000] }
FeeConfigs == SelectorConfigs(BaseConfig)

InitFees == InitWith(FeeEntries, FeeConfigs, { << >> })
SpecFees == InitFees /\ [][Next]_vars

\* SpecPackage: entries that make a package fail each of its tests: too
\* large, too many sig-ops, not final.
PackageEntries ==
    { BaseEntry,
      [BaseEntry EXCEPT !.size = 900],
      [BaseEntry EXCEPT !.sigops = 9950],
      [BaseEntry EXCEPT !.lockTime = 1000] }
PackageConfigs == SelectorConfigs(BaseConfig)

InitPackage == InitWith(PackageEntries, PackageConfigs, { << >> })
SpecPackage == InitPackage /\ [][Next]_vars

\* SpecFilter: entries that fail one filter of TestForBlock (lock time,
\* known respend, minimum size), before and after the Nov-2018 rule.
FilterEntries ==
    { BaseEntry,
      [BaseEntry EXCEPT !.lockTime = 1000],
      [BaseEntry EXCEPT !.respent = TRUE],
      [BaseEntry EXCEPT !.size = 90] }
\* the miner's script and the coinbase message are long, or so short that
\* the proof-base falls below MIN_TX_SIZE
FilterConfigs ==
    UNION { SelectorConfigs([BaseConfig EXCEPT !.nov2018 = n,
                                               !.scriptLen = sc[1],
                                               !.cbmsgLen = sc[2]]) :
              n \in BOOLEAN, sc \in { << 25, 12 >>, << 2, 0 >> } }

InitFilter == InitWith(FilterEntries, FilterConfigs, { << >> })
SpecFilter == InitFilter /\ [][Next]_vars

\* SpecAge: entries that arrived less than a second ago, with a clock that
\* advances during the call.
AgeEntries ==
    { BaseEntry,
      [BaseEntry EXCEPT !.time = 1500000],
      [BaseEntry EXCEPT !.size = 900] }
AgeConfigs == SelectorConfigs(BaseConfig)

InitAge == InitWith(AgeEntries, AgeConfigs, { << >> })
SpecAge == InitAge /\ [][Next]_vars

\* SpecScore: score order against capacity.  One entry carries nearly the
\* whole pre-May2020 sig-op budget of the first megabyte, one entry is a
\* megabyte long, one is small and pays least per byte.
ScoreEntries ==
    { [BaseEntry EXCEPT !.size = 900, !.sigops = 19950, !.fee = 100],
      [BaseEntry EXCEPT !.size = 1000000, !.fee = 100],
      [BaseEntry EXCEPT !.size = 900, !.fee = 0] }
ScoreConfigs ==
    SelectorConfigs([BaseConfig EXCEPT !.nBlockMaxSize = 2500000,
                                       !.minRelayPerK = 0])

InitScore == InitWith(ScoreEntries, ScoreConfigs, { << >> })
SpecScore == InitScore /\ [][Next]_vars

\* SpecOverflow: long snapshots without dependencies, in a block of about
\* two entries.  The entries are of 900, 300 and 1900 bytes (the last does
\* not fit even the empty block) and all pay the same fee per byte, so the
\* handles alone order the indices and every order of sizes is tried.
OverflowEntries ==
    { [BaseEntry EXCEPT !.size = 900, !.fee = 1800],
      [BaseEntry EXCEPT !.size = 300, !.fee = 600],
      [BaseEntry EXCEPT !.size = 1900, !.fee = 3800] }
\* the package selector alone, or the score selector after a priority phase
OverflowConfigs ==
    { [BaseConfig EXCEPT !.miningCPFP = TRUE],
      [BaseConfig EXCEPT !.miningCPFP = FALSE, !.blockprioritysize = 1200] }

InitOverflow ==
    InitSized(NumTxLong, NoLinks(NumTxLong), OverflowEntries,
              OverflowConfigs, { << >> })
SpecOverflow == InitOverflow /\ [][Next]_vars

\* SpecProofbase: the proof-base builder.  The DAG tips are any list of
\* distinct hashes and may change during the call; the miner's script is
\* short, usual or just below MAX_COINBASE_SCRIPTSIG_SIZE; the coinbase
\* message is empty or not; the reservation is the caller's explicit size 0
\* or the configured coinbaseReserve.
ProofbaseEntries == { [BaseEntry EXCEPT !.size = 590] }
ProofbaseConfigs ==
    { [BaseConfig EXCEPT !.miningCPFP = sel[1], !.blockprioritysize = sel[2],
                         !.nov2018 = n, !.scriptLen = sl, !.cbmsgLen = cb,
                         !.coinbaseSize = cs] :
        sel \in { << TRUE, 0 >>, << FALSE, 2000 >> }, n \in BOOLEAN,
        sl \in {2, 25, 99}, cb \in {0, 12}, cs \in {0, -1} }

InitProofbase ==
    InitSized(NumTx, NoLinks(NumTx), ProofbaseEntries, ProofbaseConfigs,
              TipLists)
SpecProofbase == InitProofbase /\ [][NextDag]_vars

\* SpecScriptSig: the scriptSig of vin[0].  The miner's script is short,
\* at the limit, or longer than MAX_COINBASE_SCRIPTSIG_SIZE; the coinbase
\* message is empty, short or long.
ScriptSigConfigs ==
    UNION { SelectorConfigs([BaseConfig EXCEPT !.scriptLen = sl,
                                               !.cbmsgLen = cb]) :
              sl \in {2, 25, 99, 100, 101, 120}, cb \in {0, 12, 80} }

InitScriptSig ==
    InitSized(NumTx, NoLinks(NumTx), ProofbaseEntries, ScriptSigConfigs,
              { << >>, << 1 >> })
SpecScriptSig == InitScriptSig /\ [][Next]_vars

\* SpecTwice: CreateNewSubBlock is called a second time on the assembler.
\* The block holds two large entries or a large and a small one, so the
\* first run ends with a full in-block set, with lastFewTxs counted or with
\* blockFinished set; an entry may be young, so the clock can advance.
TwiceEntries ==
    { [BaseEntry EXCEPT !.size = sz, !.time = tm] :
        sz \in {300, 850}, tm \in {0, 1500000} }
TwiceConfigs == SelectorConfigs(BaseConfig)

InitTwice == InitWith(TwiceEntries, TwiceConfigs, { << >>, << 2, 1 >> })
SpecTwice == InitTwice /\ [][NextTwice]_vars

\* SpecSmallMax: the constructor takes maxGeneratedBlock as it is.  The
\* configured maximum is below 100, below 1000, or 2000 bytes.
ConstructedMaxSize(maxGeneratedBlock) == maxGeneratedBlock
SmallMaxConfigs ==
    UNION { SelectorConfigs([BaseConfig EXCEPT
                               !.nBlockMaxSize = ConstructedMaxSize(mg)]) :
              mg \in {50, 900, 2000} }

InitSmallMax == InitWith(TwiceEntries, SmallMaxConfigs, { << >> })
SpecSmallMax == InitSmallMax /\ [][Next]_vars

\* SpecTokens: the token cache over its store, from an empty cache and an
\* empty store; the assembler is idle.
InitTokens ==
    InitSized(NumTx, NoLinks(NumTx), { BaseEntry }, { BaseConfig }, { << >> })
SpecTokens == InitTokens /\ [][NextTokens]_vars

\* SpecUsage: the calls of the cache that move cachedTokensUsage, one after
\* the other, with Clear among them; BatchWrite, every write succeeding,
\* brings tokens into the store for GetSLPToken to read back.  Tokens are
\* added and read while the counter is below MaxUsage.
AllWritten == { [i \in 1 .. Cardinality(Outpoints) + 1 |-> TRUE] }
NextUsage ==
    \/ \E outpoint \in Outpoints :
          cachedTokensUsage < MaxUsage /\ GetSLPToken(outpoint)
    \/ \E outpoint \in Outpoints, token \in {1, 2} :
          cachedTokensUsage < MaxUsage /\ AddSLPToken(outpoint, token)
    \/ \E outpoint \in Outpoints : SpendSLPToken(outpoint)
    \/ Clear
    \/ \E synced \in BOOLEAN, oks \in AllWritten :
          BatchWrite(0, synced, Cardinality(Outpoints), oks)
SpecUsage == InitTokens /\ [][NextUsage]_vars

\* SpecRace: one thread in GetSLPToken, step by step, while another thread
\* adds, spends and flushes between its steps
NextRace ==
    \/ \E outpoint \in Outpoints :
          cachedTokensUsage < MaxUsage /\ GetProbe(outpoint)
    \/ GetRead
    \/ GetPopulate
    \/ \E outpoint \in Outpoints, token \in {1, 2} :
          cachedTokensUsage < MaxUsage /\ AddSLPToken(outpoint, token)
    \/ \E outpoint \in Outpoints : SpendSLPToken(outpoint)
    \/ \E synced \in BOOLEAN, oks \in AllWritten :
          BatchWrite(0, synced, Cardinality(Outpoints), oks)
SpecRace == InitTokens /\ [][NextRace]_vars

\* SpecTight: a block of 2000 bytes and entries of 900 and 300 bytes.  With
\* the shortest miner script and no coinbase message 185 bytes are reserved
\* and two entries of 900 bytes fit; with the usual ones 215 bytes are
\* reserved and they do not.
TightEntries == { [BaseEntry EXCEPT !.size = sz] : sz \in {300, 900} }
TightConfigs ==
    UNION { SelectorConfigs([BaseConfig EXCEPT !.scriptLen = sl,
                                               !.cbmsgLen = cb]) :
              sl \in {2, 25}, cb \in {0, 12} }

InitTight == InitWith(TightEntries, TightConfigs, { << >> })
SpecTight == InitTight /\ [][Next]_vars

\* SpecFinish: many equal entries of 900 bytes, of which a block of 2000
\* bytes takes one, so that every later candidate is rejected within the
\* last 1000 bytes; a block of 1000 bytes, which takes none; and a block
\* whose sig-op ceiling is reached after one entry.
FinishEntries == { [BaseEntry EXCEPT !.size = 900] }
FinishConfigs ==
    { BaseConfig,
      [BaseConfig EXCEPT !.blockprioritysize = 2000],
      [BaseConfig EXCEPT !.miningCPFP = TRUE],
      [BaseConfig EXCEPT !.miningCPFP = TRUE, !.nBlockMaxSize = 1000],
      [BaseConfig EXCEPT !.may2020Enabled = TRUE, !.maxSigChecks = 101,
                         !.nBlockMaxSize = 2500000] }

InitFinish ==
    InitSized(NumTxMany, NoLinks(NumTxMany), FinishEntries, FinishConfigs,
              { << >> })
SpecFinish == InitFinish /\ [][Next]_vars

\* SpecNearCeiling: entries of 0, 1 or 2 sig-ops under a ceiling of 102, of
\* which 100 are reserved, so that the capacity check finishes the block
\* while an entry without sig-ops still passes the package test.
NearCeilingEntries ==
    { [BaseEntry EXCEPT !.sigops = so, !.priority = p] :
        so \in {0, 1, 2}, p \in {60000000, 80000000} }
NearCeilingConfigs ==
    SelectorConfigs([BaseConfig EXCEPT !.may2020Enabled = TRUE,
                                       !.maxSigChecks = 102])

InitNearCeiling == InitWith(NearCeilingEntries, NearCeilingConfigs, { << >> })
SpecNearCeiling == InitNearCeiling /\ [][Next]_vars

\* SpecLive: entries of two sizes with every dependency graph, in a block of
\* about two entries, and every enabled step of the call eventually taken
\* (CreateNewSubBlock runs its loops on one thread without waiting).
InitLive == InitWith(TightEntries, SelectorConfigs(BaseConfig), { << >> })
SpecLive == InitLive /\ [][Next]_vars /\ WF_vars(Next)

\* SpecRelayFee: entries around the minimum relay fee of one satoshi per
\* byte: one that pays it, one that does not, and one that pays nothing and
\* meets it only through a parent's fee.
RelayFeeEntries ==
    { [BaseEntry EXCEPT !.size = 900, !.fee = 1000],
      [BaseEntry EXCEPT !.size = 300, !.fee = 250],
      [BaseEntry EXCEPT !.size = 900, !.fee = 0] }
RelayFeeConfigs == SelectorConfigs([BaseConfig EXCEPT !.nBlockMaxSize = 2100])

InitRelayFee == InitWith(RelayFeeEntries, RelayFeeConfigs, { << >> })
SpecRelayFee == InitRelayFee /\ [][Next]_vars

(***************************************************************************)
(* Properties.                                                             *)
(***************************************************************************)
\* sums over the in-block set, recomputed from the snapshot
SizeOf(S) == SumOver(S, [x \in Tx |-> mempool[x].size])
SigOpsOf(S) == SumOver(S, [x \in Tx |-> mempool[x].sigops])
Committed == last.verdict = "add"
Emitted == pc = "done"
\* the selected transactions of the template, vtx[1..]
Selected == [i \in 1 .. Len(tmpl.vtx) - 1 |-> tmpl.vtx[i + 1]]

\* C1: after every commit of any selector the running block size - the
\* initial reservation plus the sizes of all committed entries - is at most
\* nBlockMaxSize, and so is the total size of the selected transactions of
\* an emitted template.
C1_BlockSizeWithinMax ==
    /\ Committed =>
         /\ nBlockSize <= cfg.nBlockMaxSize
         /\ reserveBlockSize(cfg.scriptLen, cfg.coinbaseSize) + SizeOf(inBlock)
              <= cfg.nBlockMaxSize
    /\ Emitted => SizeOf(Range(Selected)) <= cfg.nBlockMaxSize
\* a commit after which not even another 900-byte entry fits
C1_Witness ==
    /\ Committed
    /\ Cardinality(inBlock) >= 2
    /\ nBlockSize + 900 > cfg.nBlockMaxSize

\* C2: after every commit of any selector nBlockSigOps - 100 reserved plus
\* the sig-ops of all committed entries - is at most the ceiling at the
\* current block size: GetMaxBlockSigOpsCount(nBlockSize) before May 2020,
\* the configured maxSigChecks after.
SigOpsCeiling ==
    IF cfg.may2020Enabled THEN cfg.maxSigChecks
    ELSE GetMaxBlockSigOpsCount(nBlockSize)
C2_SigOpsWithinCeiling ==
    Committed =>
        /\ nBlockSigOps <= SigOpsCeiling
        /\ 100 + SigOpsOf(inBlock) <= SigOpsCeiling
\* a commit that fills the sig-op budget exactly, under either rule set
C2_Witness ==
    /\ Committed
    /\ Cardinality(inBlock) >= 2
    /\ nBlockSigOps = SigOpsCeiling


\* C3: every mempool parent of a selected transaction is selected too, in
\* the in-block set at every moment and in the emitted template.
C3_ParentsInTemplate ==
    /\ \A t \in inBlock : GetMemPoolParents(t) \subseteq inBlock
    /\ Emitted =>
         \A i \in DOMAIN Selected :
             GetMemPoolParents(Selected[i]) \subseteq Range(Selected)
\* a template that leaves out an entry that is final and would fit, because
\* one of its parents is out
C3_Witness ==
    /\ Emitted
    /\ inBlock # {}
    /\ \E u \in Tx \ inBlock :
          /\ ~(GetMemPoolParents(u) \subseteq inBlock)
          /\ IsFinalTx(u)
          /\ nBlockSize + GetTxSize(u) <= cfg.nBlockMaxSize
          /\ nBlockSigOps + GetSigOpCount(u) < SigOpsCeiling

\* C4: a step of the package selector commits the whole package of its
\* candidate - the candidate and all of its ancestors outside the block -
\* when the package fits, is below the sig-op ceiling and is final, and
\* commits nothing otherwise.
WholePackage(c) == (AllAncestors(c) \cup {c}) \ inBlock
PackagePasses(c) ==
    LET pkg == WholePackage(c)
        size == nBlockSize + SizeOf(pkg)
        ceiling == IF cfg.may2020Enabled THEN cfg.maxSigChecks
                   ELSE GetMaxBlockSigOpsCount(size)
    IN /\ c \notin inBlock
       /\ ~(/\ GetModFeesWithAncestors(c) < MinRelayFee(SizeOf(pkg))
            /\ nBlockSize >= cfg.nBlockMinSize)
       /\ size <= cfg.nBlockMaxSize
       /\ nBlockSigOps + SigOpsOf(pkg) < ceiling
       /\ \A t \in pkg : IsFinalTx(t)
C4_PackageAllOrNothing ==
    [][ (pc = "package" /\ mi <= MapTxSize) =>
          LET c == AncestorScoreIndex(mi)
          IN IF PackagePasses(c)
             THEN inBlock' = inBlock \cup WholePackage(c)
             ELSE inBlock' = inBlock ]_vars
\* a package of three entries was committed in one step
C4_Witness ==
    /\ last.op = "package"
    /\ Committed
    /\ Cardinality(last.added) >= 3
\* a package of two or more entries was turned down as a whole
C4_WitnessNothing ==
    /\ last.op = "package"
    /\ last.verdict \in {"oversize", "sigops", "nonfinal"}
    /\ GetMemPoolParents(last.cand) \ inBlock # {}

\* C5: vtx[1..] of the template is strictly increasing by transaction hash,
\* holds exactly the committed entries, and no entry was committed twice.
C5_CanonicalOrder ==
    /\ Cardinality(Range(vtxe)) = Len(vtxe)
    /\ pc \in {"validate", "done"} =>
         /\ \A i \in DOMAIN Selected :
                i + 1 \in DOMAIN Selected => Selected[i] < Selected[i + 1]
         /\ Range(Selected) = inBlock
         /\ Len(Selected) = nBlockTx
\* a template of three entries that were committed in another order
C5_Witness ==
    /\ Emitted
    /\ Len(Selected) >= 3
    /\ vtxe # Selected

\* C6: vTxFees[0] of the template is the negative of the sum of vTxFees[1..].
C6_FeesSumToZero ==
    pc \in {"validate", "done"} =>
        tmpl.vTxFees[1] = - SumSeq(Tail(tmpl.vTxFees))
\* a template whose transactions pay fees, one of them with a fee delta
C6_Witness ==
    /\ Emitted
    /\ Len(Selected) >= 2
    /\ tmpl.vTxFees[1] < 0
    /\ \E t \in inBlock : mempool[t].feeDelta # 0

\* C7: every committed transaction is final at (nHeight, nLockTimeCutoff).
C7_CommittedAreFinal ==
    /\ \A t \in inBlock : IsFinalTx(t)
    /\ Emitted => \A i \in DOMAIN Selected : IsFinalTx(Selected[i])
\* a package was turned down because an ancestor of a final candidate is
\* not final
C7_Witness ==
    /\ last.op = "package"
    /\ last.verdict = "nonfinal"
    /\ IsFinalTx(last.cand)
    /\ inBlock # {}

\* C8: no transaction with an input flagged by the double-spend oracle is
\* ever placed in the template.
C8_NoKnownRespend ==
    \A t \in inBlock : ~HasKnownRespentInput(t)
\* the part of C8 that the code keeps: the priority and score selectors
C8_NoKnownRespendByFilter ==
    (Committed /\ last.op \in {"priority", "score"}) =>
        \A t \in last.added : ~HasKnownRespentInput(t)

\* C9: no transaction is placed that arrived less than one second before
\* the moment it was tested.
C9_NoYoungTx ==
    Committed => \A t \in last.added : GetTimeMicrosOf(t) + 1000000 <= now
\* the part of C9 that the code keeps: the priority and score selectors
C9_NoYoungTxByFilter ==
    (Committed /\ last.op \in {"priority", "score"}) =>
        \A t \in last.added : GetTimeMicrosOf(t) + 1000000 <= now

\* C10: under the Nov-2018 rule every transaction selected for the template
\* and every transaction of the emitted template, the proof-base included,
\* has a serialized size of at least MIN_TX_SIZE.
C10_MinTxSize ==
    cfg.nov2018 =>
        /\ \A t \in inBlock : GetTxSize(t) >= MIN_TX_SIZE
        /\ Emitted =>
              /\ \A i \in DOMAIN Selected :
                     GetTxSize(Selected[i]) >= MIN_TX_SIZE
              /\ GetSerializeSize(tmpl.proofbase) >= MIN_TX_SIZE
\* the part of C10 that the code keeps: the priority and score selectors,
\* and the padding of the proof-base
C10_MinTxSizeByFilter ==
    /\ (cfg.nov2018 /\ Committed /\ last.op \in {"priority", "score"}) =>
          \A t \in last.added : GetTxSize(t) >= MIN_TX_SIZE
    /\ (cfg.nov2018 /\ Emitted) =>
          GetSerializeSize(tmpl.proofbase) >= MIN_TX_SIZE

\* u has a strictly higher mining score (modified fee per byte) than t
HigherScore(u, t) ==
    GetModifiedFee(u) * GetTxSize(t) > GetModifiedFee(t) * GetTxSize(u)
\* the step taken places an entry through the score selector
ScorePlaces == pc = "score" /\ last'.op = "score" /\ last'.verdict = "add"
\* u could be placed right now: not placed, every parent placed, and
\* TestForBlock accepts it with the clock value read in this step
Placeable(u, micros_now) ==
    /\ u \notin inBlock
    /\ ~isStillDependent(u)
    /\ TestForBlock(u, micros_now).ok

\* C11 as stated: at the moment the score selector places t, no unplaced
\* entry with a higher mining score has all parents placed and passes the
\* candidate filter and the capacity check at that moment.
C11_ScoreDominance ==
    [][ ScorePlaces =>
          \A u \in Tx \ {last'.cand} :
              HigherScore(u, last'.cand) => ~Placeable(u, now') ]_vars
\* C11 amended: at the moment the score selector places t, every unplaced
\* entry with a higher mining score is parked with a parent still missing,
\* or was tested by the score selector earlier in the call and turned down
\* then; it is not tested again.
C11_ScoreOrderOnePass ==
    [][ ScorePlaces =>
          \A u \in Tx \ (inBlock \cup {last'.cand}) :
              HigherScore(u, last'.cand) =>
                  \/ u \in waitSet /\ isStillDependent(u)
                  \/ u \in scoreRejected ]_vars
\* an entry was placed while one of higher score, turned down earlier for
\* its sig-ops, would pass at the size the block has reached
C11_Witness ==
    /\ last.op = "score"
    /\ Committed
    /\ \E u \in scoreRejected :
          /\ HigherScore(u, last.cand)
          /\ Placeable(u, now)

\* a parent that pays no fee and has a child that pays one
ZeroFeeParent(t) ==
    /\ GetModifiedFee(t) = 0
    /\ \E c \in GetMemPoolChildren(t) : GetModifiedFee(c) > 0
\* C12 as stated: with miningCPFP = false a zero-fee parent of a paying
\* child is never admitted by the score selector.
C12_ZeroFeeParentKeptOut ==
    (last.op = "score" /\ Committed) => ~ZeroFeeParent(last.cand)
\* C12 amended: the score selector has no fee floor.  A candidate it tests
\* (not placed, every parent placed) is admitted exactly when it fits the
\* block, stays within the sig-op ceiling, is final, is not below the
\* minimum size, is a second old and has no known respent input, whatever
\* fee it pays.
C12_ScoreAdmitsWhateverFee ==
    [][ (pc = "score" /\ last'.op = "score"
            /\ last'.verdict \in {"add", "reject"}) =>
          LET t == last'.cand
          IN (last'.verdict = "add") <=>
                /\ nBlockSize + mempool[t].size <= cfg.nBlockMaxSize
                /\ nBlockSigOps + mempool[t].sigops <= SigOpsCeiling
                /\ IsFinalTx(t)
                /\ (cfg.nov2018 => mempool[t].size >= MIN_TX_SIZE)
                /\ mempool[t].time + 1000000 <= now'
                /\ ~mempool[t].respent ]_vars
\* the score selector admitted a zero-fee parent of a paying child
C12_Witness ==
    /\ last.op = "score"
    /\ Committed
    /\ ZeroFeeParent(last.cand)
    /\ cfg.minRelayPerK > 0

\* the package selector has just returned because of over-size trials
AbandonedOversize ==
    /\ pc = "assemble"
    /\ last.op = "package"
    /\ last.verdict = "oversize"
\* C13: the package phase is abandoned for over-size reasons only after
\* MAX_PACKAGE_FAILURES consecutive counted over-size trials; trials
\* separated by an admitted package do not add up.
C13_FiveConsecutiveFailures ==
    AbandonedOversize => consecutiveFailures >= MAX_PACKAGE_FAILURES

\* the tests of addPackageTxs on the candidate at the head of the index,
\* recomputed from the entries
PackageLowFee(c) ==
    /\ GetModFeesWithAncestors(c) < MinRelayFee(SizeOf(WholePackage(c)))
    /\ nBlockSize >= cfg.nBlockMinSize
PackageOversize(c) ==
    /\ c \notin inBlock
    /\ ~PackageLowFee(c)
    /\ nBlockSize + SizeOf(WholePackage(c)) > cfg.nBlockMaxSize
\* C14: an over-size trial is counted exactly when the block is more than
\* half full; at the fifth counted failure addPackageTxs returns, and after
\* its return no candidate is tried or committed.
C14_FifthFailureReturns ==
    [][ /\ (pc = "package" /\ mi <= MapTxSize) =>
              LET c == AncestorScoreIndex(mi)
                  counted == /\ PackageOversize(c)
                             /\ 2 * nBlockSize > cfg.nBlockMaxSize
              IN /\ nPackageFailures' =
                       nPackageFailures + (IF counted THEN 1 ELSE 0)
                 /\ (PackageOversize(c)
                        /\ nPackageFailures' >= MAX_PACKAGE_FAILURES)
                      => (pc' = "assemble" /\ inBlock' = inBlock)
                 /\ (PackageOversize(c)
                        /\ nPackageFailures' < MAX_PACKAGE_FAILURES)
                      => pc' = "package"
        /\ pc \in {"assemble", "validate"} =>
              (mi' = mi /\ inBlock' = inBlock) ]_vars
\* the selector returned at the fifth failure and left untried a smaller
\* entry that would fit
C14_Witness ==
    /\ AbandonedOversize
    /\ nPackageFailures = MAX_PACKAGE_FAILURES
    /\ mi <= MapTxSize
    /\ \E i \in mi .. MapTxSize :
          LET u == AncestorScoreIndex(i)
          IN /\ u \notin inBlock
             /\ nBlockSize + mempool[u].size <= cfg.nBlockMaxSize
             /\ GetModifiedFee(u) >= MinRelayFee(mempool[u].size)

\* the final proof-base has been built from the current DAG tips
Built == pc \in {"validate", "done"}
Outpoint(in) == << in.hash, in.n >>

C16_InputCount ==
    Built =>
        LET vin == tmpl.proofbase.vin
        IN /\ Len(vin) = Max(2, 1 + Len(tips))
           /\ vin[1].hash = NullHash
           /\ \A i \in DOMAIN tips : vin[i + 1].hash = tips[i]
\* a proof-base for three tips that are not in ascending order, built
\* after the tips changed from the empty list
C16_Witness ==
    /\ Emitted
    /\ Len(tips) = MaxTips
    /\ tips[1] > tips[2]
    /\ Len(tmpl.proofbase.vin) = 1 + MaxTips

\* C17: the proof-base has exactly one output, which pays the supplied
\* script with value zero.
C17_SingleZeroOutput ==
    Built =>
        LET vout == tmpl.proofbase.vout
        IN /\ Len(vout) = 1
           /\ vout[1].value = 0
           /\ vout[1].script = cfg.scriptLen

\* C18: before any padding the scriptSig of vin[0] is at most
\* MAX_COINBASE_SCRIPTSIG_SIZE bytes, and only the flags are shortened: the
\* flags keep between 0 and their full length.
C18_ScriptSigWithinLimit ==
    pc # "idle" =>
        /\ CoinbaseScriptSigSize(cfg.scriptLen) <= MAX_COINBASE_SCRIPTSIG_SIZE
        /\ CoinbaseFlagsSize(cfg.scriptLen) >= 0
        /\ CoinbaseFlagsSize(cfg.scriptLen) <= PushSize(cfg.cbmsgLen)
\* the part of C18 that the code keeps: a miner script within the limit
C18_ScriptSigWithinLimitShortScript ==
    (pc # "idle" /\ cfg.scriptLen <= MAX_COINBASE_SCRIPTSIG_SIZE) =>
        /\ CoinbaseScriptSigSize(cfg.scriptLen) <= MAX_COINBASE_SCRIPTSIG_SIZE
        /\ CoinbaseFlagsSize(cfg.scriptLen) >= 0
        /\ CoinbaseFlagsSize(cfg.scriptLen) <= PushSize(cfg.cbmsgLen)

\* what resetBlock reserved for the proof-base: the running size less the
\* header and the committed entries
ProofbaseReservation == nBlockSize - SizeOf(inBlock) - (80 + 5)
\* C19: the size reserved for the proof-base is never smaller than the
\* size of the final proof-base, also when the DAG tips change between the
\* two builds; header, final proof-base and selected transactions together
\* are within nBlockMaxSize.
C19_ReservationCoversProofbase ==
    Built =>
        /\ ProofbaseReservation >= GetSerializeSize(tmpl.proofbase)
        /\ (inBlock # {} =>
              (80 + 5) + GetSerializeSize(tmpl.proofbase) + SizeOf(inBlock)
                  <= cfg.nBlockMaxSize)

\* C20: a second call of CreateNewSubBlock on the same assembler, with the
\* snapshot, the chain tip, the DAG tips, the configuration and the clock
\* unchanged, starts from fields that hold nothing of the first run and
\* returns the template the first call returned
SecondRun == firstRun.n = 1 /\ ticks = 0
C20_SecondRunIdentical ==
    /\ (SecondRun /\ last.op = "reset") =>
           /\ inBlock = {}
           /\ nBlockTx = 0 /\ nFees = 0 /\ nBlockSigOps = 100
           /\ nBlockSize = reserveBlockSize(cfg.scriptLen, cfg.coinbaseSize)
           /\ lastFewTxs = 0 /\ ~blockFinished
    /\ (SecondRun /\ pc = "done") => tmpl = firstRun.tmpl
\* the second call returns a template with transactions, after a first run
\* that left a non-empty in-block set and blockFinished set
C20_Witness ==
    /\ SecondRun /\ pc = "done"
    /\ Len(tmpl.vtx) >= 3
    /\ firstRun.inBlock # {}
    /\ firstRun.blockFinished

\* C21: the fee-selection phase runs after addPriorityTxs has returned, never
\* goes back to it and never takes an entry out of the in-block set; every
\* entry committed by addPriorityTxs is in the returned template
FeeSelection == pc \in {"score", "package"}
C21_PriorityEntriesKept ==
    [][ /\ FeeSelection =>
              /\ pc' # "priority"
              /\ priorityPlaced' = priorityPlaced
              /\ inBlock \subseteq inBlock'
        /\ pc' \in {"score", "package", "assemble", "validate", "done"} =>
              priorityPlaced' \subseteq inBlock'
        /\ pc' = "done" => priorityPlaced' \subseteq Range(Selected') ]_vars
\* a template is returned that holds an entry of the priority phase and an
\* entry of the fee-selection phase
C21_Witness ==
    /\ pc = "done"
    /\ priorityPlaced # {}
    /\ Range(Selected) \ priorityPlaced # {}

\* C22: when TestSubBlockValidity fails the call ends in the error and no
\* template is left; a template is returned only straight after the check
\* succeeded, and it is the fully assembled one
C22_NoTemplateWhenInvalid ==
    /\ (last.op = "validate" /\ last.verdict = "invalid") =>
           /\ pc = "error"
           /\ tmpl = EmptyTemplate
    /\ pc = "done" =>
           /\ last.op = "validate" /\ last.verdict = "valid"
           /\ tmpl.vtx = << 0 >> \o SortByHash(vtxe)
           /\ Len(tmpl.vTxFees) = Len(tmpl.vtx)
           /\ Len(tmpl.vTxSigOps) = Len(tmpl.vtx)
           /\ tmpl.vTxFees[1] = -nFees
           /\ tmpl.proofbase = proofbaseTx(cfg.scriptLen, tips)
\* the check failed on a sub-block with transactions
C22_Witness ==
    /\ last.op = "validate" /\ last.verdict = "invalid"
    /\ inBlock # {}

\* C23: whenever the capacity check of the priority or score selector takes
\* its size branch, nBlockMaxSize is at least 1000 and neither
\* nBlockMaxSize - 100 nor nBlockMaxSize - 1000 wraps around
SizeBranchTaken ==
    /\ last'.op \in {"priority", "score"}
    /\ last'.verdict = "reject"
    /\ ExceedsBlockSize(GetTxSize(last'.cand))
C23_MaxSizeClamped ==
    [][ SizeBranchTaken =>
          /\ cfg.nBlockMaxSize >= 1000
          /\ USub(cfg.nBlockMaxSize, 100) = cfg.nBlockMaxSize - 100
          /\ USub(cfg.nBlockMaxSize, 1000) = cfg.nBlockMaxSize - 1000 ]_vars

\* C24: while every store write has succeeded, each token that was added and
\* not spent afterwards is in the store, or in the cache with the DIRTY flag
TokenInStore(o, token) == o \in DOMAIN dbTokens /\ dbTokens[o] = token
TokenDirtyInCache(o, token) ==
    /\ o \in DOMAIN cacheTokens
    /\ DIRTY \in cacheTokens[o].flags
    /\ cacheTokens[o].token = token
    /\ ~cacheTokens[o].spent
C24_AddedTokenNotLost ==
    ~slpAdded.writeFailed =>
        \A o \in DOMAIN slpAdded.added :
            \/ TokenInStore(o, slpAdded.added[o])
            \/ TokenDirtyInCache(o, slpAdded.added[o])
\* a BatchWrite has moved an added token to the store and out of the cache,
\* and another added token waits in the cache
C24_Witness ==
    /\ ~slpAdded.writeFailed
    /\ slpLast.op = "AddSLPToken"
    /\ \E o \in DOMAIN slpAdded.added :
          /\ TokenInStore(o, slpAdded.added[o])
          /\ o \notin DOMAIN cacheTokens
    /\ \E o \in DOMAIN slpAdded.added :
          /\ ~TokenInStore(o, slpAdded.added[o])
          /\ TokenDirtyInCache(o, slpAdded.added[o])

\* C25: a BatchWrite advances the stored best block only when every
\* db.WriteBatch of the call, the last included, has succeeded; when one of
\* them fails the best block stays as it was and BatchWrite returns false
BatchWritten == slpLast'.op = "BatchWrite"
C25_BestBlockAfterAllFragments ==
    [][ BatchWritten =>
          /\ dbBestBlock' # dbBestBlock =>
                \A i \in DOMAIN slpLast'.frags : slpLast'.frags[i]
          /\ FALSE \in Range(slpLast'.frags) =>
                /\ dbBestBlock' = dbBestBlock
                /\ ~slpLast'.ret ]_vars

\* C26: once SpendSLPToken has spent an outpoint that was in the cache or in
\* the store, GetSLPToken returns false for it until it is added again, and
\* after a BatchWrite whose writes all succeeded the store does not hold it
C26_SpentStaysSpent ==
    /\ (slpLast.op = "GetSLPToken" /\ slpLast.outpoint \in slpAdded.spent) =>
           ~slpLast.ret
    /\ (slpLast.op = "BatchWrite" /\ ~slpAdded.writeFailed) =>
           \A o \in slpAdded.spent : ~GetToken(o)

\* C27: every candidate the capacity check rejects for size while the block
\* is within 1000 bytes of nBlockMaxSize adds one to lastFewTxs
WithinLastKB == nBlockSize > cfg.nBlockMaxSize - 1000
RejectedForSize ==
    /\ SizeBranchTaken
    /\ nBlockSize > cfg.nBlockMaxSize - 100 \/ lastFewTxs > 50
RejectedForSigOps ==
    /\ last'.op \in {"priority", "score"}
    /\ last'.verdict = "reject"
    /\ ~ExceedsBlockSize(GetTxSize(last'.cand))
    /\ nBlockSigOps + GetSigOpCount(last'.cand) > SigOpsCeiling
    /\ nBlockSigOps > SigOpsCeiling - 2
C28_FinishedOnlyByCapacityCheck ==
    [][ /\ (~blockFinished /\ blockFinished') =>
              (RejectedForSize \/ RejectedForSigOps)
        /\ (blockFinished /\ ~blockFinished') => last'.op = "reset"
        /\ lastFewTxs' <= 51 ]_vars
\* the block was finished by the fifty-first counted rejection being followed
\* by one more
C28_Witness ==
    /\ blockFinished
    /\ lastFewTxs = 51
    /\ last.verdict = "reject"

\* C29: once blockFinished is true, no transaction is committed for the
\* rest of the CreateNewSubBlock call, in the score selector and in the
\* package selector alike
C29_NoCommitAfterFinished ==
    [][ (blockFinished /\ last'.op # "reset") =>
            /\ inBlock' = inBlock
            /\ vtxe' = vtxe
            /\ last'.added = {} ]_vars

\* C30: the priority and the score selector commit a transaction only when
\* all of its mempool parents are in the in-block set already, so a child
\* reached before a parent is parked and committed only after the last of
\* its parents
CommittedBySelector ==
    /\ last'.op \in {"priority", "score"}
    /\ last'.added # {}
C30_CommittedAfterParents ==
    [][ CommittedBySelector =>
            /\ last'.added = {last'.cand}
            /\ GetMemPoolParents(last'.cand) \subseteq inBlock
            /\ last'.cand \notin inBlock ]_vars
\* the score selector has just committed a child that stands before one of
\* its parents in the mining_score index
C30_Witness ==
    /\ last.op = "score"
    /\ last.verdict = "add"
    /\ \E i, j \in 1 .. MapTxSize :
          /\ i < j
          /\ MiningScoreIndex(i) = last.cand
          /\ MiningScoreIndex(j) \in GetMemPoolParents(last.cand)
    /\ GetMemPoolParents(last.cand) \subseteq inBlock

\* C31: in the score selector a transaction taken from the cleared heap has
\* a mining score at least as high as every index entry not yet visited,
\* and while the cleared heap is not empty its top is tried before the
\* next index entry
ScoreAtLeast(a, b) ==
    GetModifiedFee(a) * GetTxSize(b) >= GetModifiedFee(b) * GetTxSize(a)
ScoreStep == pc = "score" /\ last'.op = "score" /\ last'.cand # 0
C31_ClearedBeforeIndex ==
    [][ (ScoreStep /\ clearedTxs # {}) =>
            /\ last'.cand \in clearedTxs
            /\ \A c \in clearedTxs : ScoreAtLeast(last'.cand, c)
            /\ mi' = mi
            /\ \A j \in mi .. MapTxSize :
                  ScoreAtLeast(last'.cand, MiningScoreIndex(j)) ]_vars
\* a child taken from the cleared heap was committed while index entries
\* were still waiting
C31_Witness ==
    /\ last.op = "score"
    /\ last.verdict = "add"
    /\ mi <= MapTxSize
    /\ \E i \in 1 .. mi - 2 : MiningScoreIndex(i) = last.cand

\* C32: the priority, score and package phases each terminate; a parked
\* transaction goes back to the heap only on the commit of one of its
\* parents; and when the score phase ends without blockFinished every
\* transaction left in the wait-set has a parent outside the block
PushedBack ==
    (clearedTxs' \ clearedTxs)
        \cup ({ e[2] : e \in vecPriority' } \ { e[2] : e \in vecPriority })
ScorePhaseEnds ==
    pc = "score" /\ pc' = "assemble" /\ ~blockFinished'
C32_PhasesTerminate ==
    /\ (pc = "priority") ~> (pc # "priority")
    /\ (pc = "score") ~> (pc # "score")
    /\ (pc = "package") ~> (pc # "package")
    /\ [][ /\ (pc # "idle" /\ PushedBack # {}) =>
                /\ last'.verdict = "add"
                /\ last'.added = {last'.cand}
                /\ last'.cand \notin inBlock
                /\ \A c \in PushedBack : last'.cand \in GetMemPoolParents(c)
           /\ ScorePhaseEnds =>
                \A t \in waitSet' :
                    \E p \in GetMemPoolParents(t) : p \notin inBlock' ]_vars
\* the score phase has ended without blockFinished and left a transaction
\* in the wait-set
C32_Witness ==
    /\ pc = "assemble"
    /\ last.op = "score"
    /\ ~blockFinished
    /\ waitSet # {}

\* C33: when the package phase returns through the early-termination rule,
\* no candidate later in the ancestor_score index could have been admitted
\* with a package fee at or above the minimum relay fee for its own trimmed
\* package size
EarlyTermination == pc = "package" /\ last'.verdict = "lowfee"
Admissible(u) ==
    /\ u \notin inBlock
    /\ GetModFeesWithAncestors(u) >= MinRelayFee(PackageSize(u))
    /\ nBlockSize + PackageSize(u) <= cfg.nBlockMaxSize
    /\ TestPackageSigOps(PackageSize(u), PackageSigOps(u))
    /\ TestPackageFinality(PackageOf(u))
C33_NothingLeftToAdmit ==
    [][ EarlyTermination =>
            \A j \in mi + 1 .. MapTxSize :
                ~Admissible(AncestorScoreIndex(j)) ]_vars

\* C34: in every state of an assembly call the counters agree with the
\* in-block set: nBlockTx is the number of entries of the in-block set and
\* of the selected list, nBlockSize the initial reservation plus their
\* sizes, nBlockSigOps 100 plus their sig-op counts, nFees their fees
C34_CountersMatchInBlock ==
    pc # "idle" =>
        /\ nBlockTx = Cardinality(inBlock)
        /\ nBlockTx = Len(vtxe)
        /\ Range(vtxe) = inBlock
        /\ nBlockSize = reserveBlockSize(cfg.scriptLen, cfg.coinbaseSize)
                           + SumOver(inBlock, [x \in Tx |-> GetTxSize(x)])
        /\ nBlockSigOps = 100 + SumOver(inBlock, [x \in Tx |-> GetSigOpCount(x)])
        /\ nFees = SumOver(inBlock, [x \in Tx |-> GetFee(x)])
\* a package of two entries was committed after an earlier commit
C34_Witness ==
    /\ last.op = "package"
    /\ Cardinality(last.added) = 2
    /\ inBlock \ last.added # {}

\* C35: a candidate or package that is rejected (capacity check, finality,
\* size, age or respend filter, package size, sig-op or finality test)
\* leaves nBlockSize, nBlockSigOps, nBlockTx, nFees and the in-block set
\* unchanged; only a commit changes them
Counters == << nBlockSize, nBlockSigOps, nBlockTx, nFees, inBlock >>
TurnedDown ==
    /\ last'.op \in {"priority", "score", "package"}
    /\ last'.verdict \in {"reject", "lowfee", "oversize", "sigops", "nonfinal"}
C35_RejectionChangesNothing ==
    [][ /\ TurnedDown => Counters' = Counters
        /\ (pc # "idle" /\ Counters' # Counters) => last'.verdict = "add" ]_vars
\* a package was turned down for its sig-ops or its finality with entries
\* in the block
C35_Witness ==
    /\ last.op = "package"
    /\ last.verdict \in {"sigops", "nonfinal"}
    /\ inBlock # {}
    /\ nFees > 0

\* C36: every assembly step of CreateNewSubBlock, from resetBlock and the
\* size reservation to the TestSubBlockValidity self-check, runs while the
\* mempool read lock and the chain-state lock are held, and neither lock is
\* released in between
AssemblyStep ==
    last'.op \in {"reset", "priority", "score", "package", "assemble",
                  "validate"}
C36_LocksHeldThroughout ==
    [][ AssemblyStep =>
            /\ {"cs_main", "cs_txmempool"} \subseteq held
            /\ last'.op # "validate" =>
                    {"cs_main", "cs_txmempool"} \subseteq held' ]_vars

\* C38: no token-cache operation acquires cs_slp_utxo while its thread holds
\* it (SpendSLPToken, holding the exclusive lock, reaches no store read that
\* takes the shared lock), and every operation completes
C38_NoLockTakenTwice ==
    /\ ~slpLast.relock
    /\ ~slpHung

\* what a BatchWrite that met entry it of the map under outpoint o has to
\* leave behind: the token in the store, or the outpoint gone from it when
\* the token was spent; the entry out of the map when it was spent or the
\* chain is nearly synced, and in the map without DIRTY otherwise
Flushed(o, it, synced, map, db) ==
    /\ IF it.spent THEN o \notin DOMAIN db
       ELSE o \in DOMAIN db /\ db[o] = it.token
    /\ (o \notin DOMAIN map) <=> (it.spent \/ synced)
FlushedAll ==
    /\ \A o \in DOMAIN cacheTokens' : DIRTY \notin cacheTokens'[o].flags
    /\ \A o \in DOMAIN cacheTokens :
          IF DIRTY \in cacheTokens[o].flags
          THEN Flushed(o, cacheTokens[o], slpLast'.synced, cacheTokens',
                       dbTokens')
          ELSE o \in DOMAIN cacheTokens' /\ cacheTokens'[o] = cacheTokens[o]
\* C39: after BatchWrite returns true no entry of the map is DIRTY, every
\* entry that was DIRTY is written to the store if unspent and erased from
\* it if spent, spent entries are out of the map and unspent ones exactly
\* when the chain is nearly synced, and the other entries are unchanged
C39_TrueMeansFlushed ==
    [][ (slpLast'.op = "BatchWrite" /\ slpLast'.ret) => FlushedAll ]_vars

\* the dynamic memory usage of the tokens held in the cache map
UsageOfMap ==
    SumOver(DOMAIN cacheTokens,
            [o \in DOMAIN cacheTokens |-> DynamicMemoryUsage(cacheTokens[o])])
\* C40: after any sequence of GetSLPToken, AddSLPToken, SpendSLPToken and
\* Clear calls cachedTokensUsage is the sum of the dynamic memory usage of
\* the tokens in the cache map, and it never wraps below zero
C40_UsageMatchesMap == cachedTokensUsage = UsageOfMap

\* the populate step of a GetSLPToken that missed the cache, finding the
\* outpoint in the map: another thread has put it there since the probe
PopulateOverEntry ==
    /\ reader.pc = "populate"
    /\ reader'.pc = "idle"
    /\ reader.outpoint \in DOMAIN cacheTokens
\* C37: when another thread has added or spent the outpoint between the
\* reader's release of the shared lock and its populate step, the populate
\* step leaves a DIRTY entry DIRTY and with the other thread's token, and
\* does not add the entry's usage to cachedTokensUsage a second time
C37_PopulateKeepsChange ==
    [][ PopulateOverEntry =>
          LET o == reader.outpoint
          IN /\ DIRTY \in cacheTokens[o].flags =>
                   /\ DIRTY \in cacheTokens'[o].flags
                   /\ cacheTokens'[o].token = cacheTokens[o].token
             /\ cachedTokensUsage' = cachedTokensUsage ]_vars

=============================================================================
